---- MODULE Spec2Model ----
(***************************************************************************)
(* Model of the voice-agent chat pipeline of src/Task-12/main.py:          *)
(* POST /agent/chat/{session_id} (agent_chat_with_history), the fallback   *)
(* synthesiser generate_fallback_audio and the in-memory session store.    *)
(*                                                                         *)
(* The handlers are asyncio coroutines: the code between two awaits runs   *)
(* without interleaving, so every action below is the code from one await  *)
(* to the next.  Texts are TLA+ strings, with the source's literals.       *)
(* Python's None is the string None; a missing or empty credential is      *)
(* FALSE in keys.                                                          *)
(***************************************************************************)
EXTENDS Integers, Sequences, FiniteSets, TLC

VARIABLES
    keys,                 \* credentials: os.getenv(...) / gemini_api_key
    chat_history_store,   \* session_id -> sequence of messages
    now,                  \* what datetime.now() reads
    started,              \* number of chat requests received so far
    pc,                   \* per request: the await it is suspended at
    session_id,           \* per request: path parameter
    transcribed_text,     \* per request: local of agent_chat_with_history
    llm_text,             \* per request: local of agent_chat_with_history
    message_count,        \* per request: local of agent_chat_with_history
    message,              \* per request: argument of generate_fallback_audio
    response,             \* per request: the body returned to the caller
    outcome,              \* per request: what each adapter call ended in
    calls,                \* per request: adapter calls and store appends, in order
    journal,              \* per session: the appends since its last clear, in the
                          \* order they completed, each with the request that made it
    http,                 \* the body last returned by the history, clear,
                          \* sessions or health endpoint
    request               \* per request: the endpoint called and what was sent
                          \* to it, for the endpoints other than the chat

vars == <<keys, chat_history_store, now, started, pc, session_id, transcribed_text,
          llm_text, message_count, message, response, outcome, calls, journal, http, request>>

----------------------------------------------------------------------------
(* Bounds of the model *)

MaxReqs == 2
MaxChats == 2

\* request slots: handler coroutines that can be in flight at the same time
Reqs == 1..MaxReqs
\* a single client that sends a request only after the previous response
Serial == {1}
Sessions == {"s1", "s2"}

None == "<None>"

----------------------------------------------------------------------------
(* Text helpers *)

RECURSIVE Rep(_, _)
Rep(s, n) ==
    IF n = 0 THEN ""
    ELSE IF n % 2 = 1 THEN s \o Rep(s, n - 1)
    ELSE LET h == Rep(s, n \div 2) IN h \o h

Whitespace == {" ", "\n", "\t", "\r"}

RECURSIVE LStrip(_)
LStrip(s) ==
    IF Len(s) > 0 /\ SubSeq(s, 1, 1) \in Whitespace
    THEN LStrip(SubSeq(s, 2, Len(s)))
    ELSE s

RECURSIVE RStrip(_)
RStrip(s) ==
    IF Len(s) > 0 /\ SubSeq(s, Len(s), Len(s)) \in Whitespace
    THEN RStrip(SubSeq(s, 1, Len(s) - 1))
    ELSE s

\* str.strip()
Strip(s) == RStrip(LStrip(s))

\* s[:n]
Prefix(s, n) == SubSeq(s, 1, IF n < Len(s) THEN n ELSE Len(s))

\* needle in hay
Contains(hay, needle) ==
    \E i \in 0..(Len(hay) - Len(needle)) :
        SubSeq(hay, i + 1, i + Len(needle)) = needle

----------------------------------------------------------------------------
(* Program constants *)

FALLBACK_RESPONSES ==
    [stt_error |-> "I'm sorry, I'm having trouble understanding your audio right now. Please try speaking again or check your microphone.",
     llm_error |-> "I'm having trouble connecting to my AI brain right now. Please try again in a moment.",
     tts_error |-> "I understand you, but I'm having trouble generating speech right now.",
     general_error |-> "I'm experiencing some technical difficulties. Please try again in a moment.",
     no_speech |-> "I didn't hear anything. Could you please speak louder or closer to your microphone?",
     api_key_missing |-> "The service is temporarily unavailable due to configuration issues. Please try again later."]

STT_TIMEOUT_MESSAGE ==
    "Your audio is taking too long to process. Please try with a shorter recording."

LLM_TIMEOUT_MESSAGE ==
    "I'm taking a bit longer to think. Let me give you a quick response for now."

CONTINUATION_SUFFIX == "... I have more to share, but let me pause here."

PREAMBLE ==
    "You are a helpful AI assistant. Please respond in a conversational and concise manner (keep it under 2500 characters to fit TTS limits).\n\nConversation history:\n"

MaxReplyLen == 3000
TruncatedLen == 2900
HistoryWindow == 10

----------------------------------------------------------------------------
(* What the three remote adapters may answer *)

AUDIO_URL == "https://murf.ai/user-upload/one-day-temp/reply.mp3"

\* a reply of exactly MaxReplyLen characters once stripped, and one a character longer
ReplyAtLimit == Rep("abcdefghij", MaxReplyLen \div 10)
ReplyOverLimit == ReplyAtLimit \o "k"

\* transcript.text: None, empty, blank, or speech
SttTexts == {"hello", None, "", "  "}

\* llm_response.text
LlmTexts == {"hi there", None, "", "  ", " " \o ReplyAtLimit \o "\n", ReplyOverLimit}

SttOutcomes ==
    [kind : {"text"}, text : SttTexts]
        \cup [kind : {"error", "timeout", "exception"}, text : {None}]

LlmOutcomes ==
    [kind : {"text"}, text : LlmTexts]
        \cup [kind : {"timeout", "exception"}, text : {None}]

\* Murf's answer to POST /v1/speech/generate: 200 with an audioFile, 200 with a
\* JSON object that has no audioFile, another status code, a timeout of the
\* client, or any other exception (network error, body that is not JSON)
MurfOutcomes ==
    [kind : {"ok"}, audioFile : {AUDIO_URL}]
        \cup [kind : {"no_audio_file", "non_200", "timeout", "exception"}, audioFile : {None}]

NotCalled == [kind |-> "not_called"]
MissingKey == [kind |-> "missing_key"]

----------------------------------------------------------------------------
(* Session store: lines 158-184 *)

EmptyStore == [s \in {} |-> <<>>]

get_chat_history(store, sid) ==
    IF sid \in DOMAIN store THEN store[sid] ELSE <<>>

\* add_message_to_history with the append of line 173 under an `else` of the
\* test of line 165: the call that creates a session stores no message
add_message_to_history_ElseAppend(store, sid, role, content) ==
    LET msg == [role |-> role, content |-> content, timestamp |-> now]
    IN  [s \in DOMAIN store \cup {sid} |->
            IF s # sid THEN store[s]
            ELSE IF sid \in DOMAIN store THEN Append(store[sid], msg)
            ELSE <<>>]

\* add_message_to_history that keeps only the newest HistoryWindow messages of
\* a session
add_message_to_history_Window(store, sid, role, content) ==
    LET existing == IF sid \in DOMAIN store THEN store[sid] ELSE <<>>
        msg == [role |-> role, content |-> content, timestamp |-> now]
        all == Append(existing, msg)
    IN  [s \in DOMAIN store \cup {sid} |->
            IF s = sid
            THEN SubSeq(all, IF Len(all) > HistoryWindow THEN Len(all) - HistoryWindow + 1 ELSE 1,
                        Len(all))
            ELSE store[s]]

\* add_message_to_history with insert(0, message) in place of append at line 173
add_message_to_history_Front(store, sid, role, content) ==
    LET existing == IF sid \in DOMAIN store THEN store[sid] ELSE <<>>
        msg == [role |-> role, content |-> content, timestamp |-> now]
    IN  [s \in DOMAIN store \cup {sid} |->
            IF s = sid THEN <<msg>> \o existing ELSE store[s]]

add_message_to_history(store, sid, role, content) ==
    LET existing == IF sid \in DOMAIN store THEN store[sid] ELSE <<>>
        msg == [role |-> role, content |-> content, timestamp |-> now]
    IN  [s \in DOMAIN store \cup {sid} |->
            IF s = sid THEN Append(existing, msg) ELSE store[s]]

\* clear_chat_history with chat_history_store.clear() at line 178: every
\* session goes with the one that is cleared
clear_chat_history_All(store, sid) ==
    IF sid \in DOMAIN store THEN EmptyStore ELSE store

\* clear_chat_history that empties the list at line 178 and keeps the key
clear_chat_history_KeepsKey(store, sid) ==
    [s \in DOMAIN store |-> IF s = sid THEN <<>> ELSE store[s]]

clear_chat_history(store, sid) ==
    [s \in DOMAIN store \ {sid} |-> store[s]]

get_session_message_count(store, sid) ==
    Len(get_chat_history(store, sid))

\* the record of one completed call of add_message_to_history by request r
Journal(j, sid, r, role, content) ==
    LET existing == IF sid \in DOMAIN j THEN j[sid] ELSE <<>>
        entry == [role |-> role, content |-> content, timestamp |-> now, by |-> r]
    IN  [s \in DOMAIN j \cup {sid} |->
            IF s = sid THEN Append(existing, entry) ELSE j[s]]

----------------------------------------------------------------------------
(* Pure parts of agent_chat_with_history and generate_fallback_audio *)

\* `not text or text.strip() == ""` (line 659)
IsBlank(text) == text = None \/ text = "" \/ Strip(text) = ""

\* lines 654-668: which apology a failed transcription selects
SttFailureMessage(o) ==
    CASE o.kind = "error" -> FALLBACK_RESPONSES.stt_error
      [] o.kind = "text" -> FALLBACK_RESPONSES.no_speech
      [] o.kind = "timeout" -> STT_TIMEOUT_MESSAGE
      [] OTHER -> FALLBACK_RESPONSES.stt_error

\* SttFailed that knows only the transcript status of line 654: a blank text,
\* a timeout and an exception count as transcribed
SttFailed_ErrorOnly(o) == o.kind = "error"

\* SttFailed without the blank check of line 659
SttFailed_NoBlankCheck(o) == o.kind # "text" \/ o.text = None

SttFailed(o) == o.kind # "text" \/ IsBlank(o.text)

\* Truncate that keeps MaxReplyLen characters in front of the suffix
Truncate_KeepsLimit(text) ==
    IF Len(text) > MaxReplyLen
    THEN Prefix(text, MaxReplyLen) \o CONTINUATION_SUFFIX
    ELSE text

\* Truncate with `>=` for the `>` of line 710
Truncate_OffByOne(text) ==
    IF Len(text) >= MaxReplyLen
    THEN Prefix(text, TruncatedLen) \o CONTINUATION_SUFFIX
    ELSE text

\* lines 709-711
Truncate(text) ==
    IF Len(text) > MaxReplyLen
    THEN Prefix(text, TruncatedLen) \o CONTINUATION_SUFFIX
    ELSE text

\* LlmText without the empty-response check of line 703
LlmText_NoEmptyCheck(o) ==
    CASE o.kind = "timeout" -> LLM_TIMEOUT_MESSAGE
      [] o.kind = "exception" -> FALLBACK_RESPONSES.llm_error
      [] OTHER -> IF o.text = None THEN FALLBACK_RESPONSES.llm_error
                  ELSE Truncate(Strip(o.text))

\* LlmText without the `except asyncio.TimeoutError` of line 713: llm_text keeps
\* its initial value of line 677
LlmText_TimeoutUnhandled(o) ==
    CASE o.kind = "timeout" -> ""
      [] o.kind = "exception" -> FALLBACK_RESPONSES.llm_error
      [] OTHER ->
            IF o.text = None \/ o.text = ""
            THEN FALLBACK_RESPONSES.llm_error
            ELSE Truncate(Strip(o.text))

\* LlmText without the strip of line 707
LlmText_NoStrip(o) ==
    CASE o.kind = "timeout" -> LLM_TIMEOUT_MESSAGE
      [] o.kind = "exception" -> FALLBACK_RESPONSES.llm_error
      [] OTHER ->
            IF o.text = None \/ o.text = ""
            THEN FALLBACK_RESPONSES.llm_error
            ELSE Truncate(o.text)

\* lines 703-718: the reply text a generator answer resolves to
LlmText(o) ==
    CASE o.kind = "timeout" -> LLM_TIMEOUT_MESSAGE
      [] o.kind = "exception" -> FALLBACK_RESPONSES.llm_error
      [] OTHER ->
            IF o.text = None \/ o.text = ""
            THEN FALLBACK_RESPONSES.llm_error
            ELSE Truncate(Strip(o.text))

\* RecentHistory with the slice [:10] in place of [-10:]
RecentHistory_Oldest(chat_history) ==
    IF Len(chat_history) > HistoryWindow
    THEN SubSeq(chat_history, 1, HistoryWindow)
    ELSE chat_history

\* line 687
RecentHistory(chat_history) ==
    IF Len(chat_history) > HistoryWindow
    THEN SubSeq(chat_history, Len(chat_history) - HistoryWindow + 1, Len(chat_history))
    ELSE chat_history

RECURSIVE HistoryLines(_)
HistoryLines(msgs) ==
    IF msgs = <<>> THEN ""
    ELSE (IF Head(msgs).role = "user"
          THEN "User: " \o Head(msgs).content \o "\n"
          ELSE "Assistant: " \o Head(msgs).content \o "\n")
         \o HistoryLines(Tail(msgs))

\* lines 684-694
ConversationContext(chat_history, text) ==
    PREAMBLE \o HistoryLines(RecentHistory(chat_history))
        \o "User: " \o text \o "\n\nPlease respond to the user's latest message."

\* lines 109-117: the body generate_fallback_audio returns
FallbackResult(msg, url) ==
    [transcription |-> "System Error",
     llm_response |-> msg,
     audio_url |-> url,
     message_count |-> 0,
     status |-> "fallback",
     fallback_text |-> msg,
     error_audio |-> TRUE]

\* lines 770-777
SuccessResult(t, l, url, sid, n) ==
    [transcription |-> t,
     llm_response |-> l,
     audio_url |-> url,
     session_id |-> sid,
     message_count |-> n,
     status |-> "success"]

\* lines 732-741, 780-789, 793-802, 805-814
PartialResult(t, l, sid, n, msg, why) ==
    [transcription |-> t,
     llm_response |-> l,
     audio_url |-> None,
     session_id |-> sid,
     message_count |-> n,
     status |-> "partial_success",
     message |-> msg,
     fallback_text |-> "Your message: '" \o t \o "'. My response: '" \o l \o "' (" \o why \o ")"]

\* SynthResult without the status check of line 767: any HTTP answer is a success
SynthResult_NoStatusCheck(o, t, l, sid, n) ==
    CASE o.kind \in {"ok", "no_audio_file", "non_200"} -> SuccessResult(t, l, o.audioFile, sid, n)
      [] o.kind = "timeout" ->
            PartialResult(t, l, sid, n, "Audio generation timed out",
                          "Audio generation taking too long")
      [] OTHER ->
            PartialResult(t, l, sid, n, "Audio generation failed",
                          "Audio generation temporarily unavailable")

\* lines 767-814: the body returned once the Murf call of the chat handler ends
SynthResult(o, t, l, sid, n) ==
    CASE o.kind \in {"ok", "no_audio_file"} -> SuccessResult(t, l, o.audioFile, sid, n)
      [] o.kind = "non_200" ->
            PartialResult(t, l, sid, n, "Conversation processed but audio generation failed",
                          "Audio generation failed")
      [] o.kind = "timeout" ->
            PartialResult(t, l, sid, n, "Audio generation timed out",
                          "Audio generation taking too long")
      [] OTHER ->
            PartialResult(t, l, sid, n, "Audio generation failed",
                          "Audio generation temporarily unavailable")

\* lines 101-107: error_audio_url after the Murf call of generate_fallback_audio
ErrorAudioUrl(o) == IF o.kind \in {"ok", "no_audio_file"} THEN o.audioFile ELSE None

----------------------------------------------------------------------------
(* State machine *)

Call(op, text) == [op |-> op, text |-> text]

NoOutcome == [stt |-> NotCalled, llm |-> NotCalled, tts |-> NotCalled]

\* no body has been returned yet
NoResponse == [status |-> "pending"]

\* no history, clear or sessions request has been answered yet
NoAnswer == [endpoint |-> "none"]

\* the slot serves no request, or a chat request
NoRequest == [endpoint |-> "none"]

Init ==
    /\ keys \in [{"assemblyai", "gemini", "murf"} -> BOOLEAN]
    /\ chat_history_store = EmptyStore
    /\ now = 0
    /\ started = 0
    /\ pc = [r \in Reqs |-> "Idle"]
    /\ session_id = [r \in Reqs |-> None]
    /\ transcribed_text = [r \in Reqs |-> ""]
    /\ llm_text = [r \in Reqs |-> ""]
    /\ message_count = [r \in Reqs |-> 0]
    /\ message = [r \in Reqs |-> None]
    /\ response = [r \in Reqs |-> NoResponse]
    /\ outcome = [r \in Reqs |-> NoOutcome]
    /\ calls = [r \in Reqs |-> <<>>]
    /\ journal = EmptyStore
    /\ http = NoAnswer
    /\ request = [r \in Reqs |-> NoRequest]

\* generate_fallback_audio(msg), lines 69-99 and, without a Murf credential, 109-117:
\* up to the await of the Murf call, or to the return
generate_fallback_audio(r, msg) ==
    /\ message' = [message EXCEPT ![r] = msg]
    /\ IF keys.murf
       THEN /\ pc' = [pc EXCEPT ![r] = "FallbackSynthesizing"]
            /\ calls' = [calls EXCEPT ![r] = Append(@, Call("synthesize", msg))]
            /\ UNCHANGED response
       ELSE /\ pc' = [pc EXCEPT ![r] = "Done"]
            /\ response' = [response EXCEPT ![r] = FallbackResult(msg, None)]
            /\ UNCHANGED calls

\* AssistantReply with lines 721 and 722 swapped: the count is taken before the
\* assistant message is appended
AssistantReply_CountFirst(r, store, jrn, text, reply, log) ==
    LET sid == session_id[r]
        store2 == add_message_to_history(store, sid, "assistant", reply)
        count == get_session_message_count(store, sid)
        log2 == Append(log, Call("append_assistant", reply))
    IN  /\ chat_history_store' = store2
        /\ journal' = Journal(jrn, sid, r, "assistant", reply)
        /\ llm_text' = [llm_text EXCEPT ![r] = reply]
        /\ message_count' = [message_count EXCEPT ![r] = count]
        /\ IF keys.murf
           THEN /\ pc' = [pc EXCEPT ![r] = "Synthesizing"]
                /\ calls' = [calls EXCEPT ![r] = Append(log2, Call("synthesize", reply))]
                /\ UNCHANGED response
           ELSE /\ pc' = [pc EXCEPT ![r] = "Done"]
                /\ calls' = [calls EXCEPT ![r] = log2]
                /\ response' = [response EXCEPT ![r] =
                       PartialResult(text, reply, sid, count,
                                     "Conversation processed but audio generation unavailable",
                                     "Audio generation temporarily unavailable")]

\* AssistantReply that cuts the text of the Murf payload (line 751) once more,
\* to TruncatedLen characters, and stores and returns the reply as it is
AssistantReply_SpeaksPrefix(r, store, jrn, text, reply, log) ==
    LET sid == session_id[r]
        store2 == add_message_to_history(store, sid, "assistant", reply)
        count == get_session_message_count(store2, sid)
        log2 == Append(log, Call("append_assistant", reply))
    IN  /\ chat_history_store' = store2
        /\ journal' = Journal(jrn, sid, r, "assistant", reply)
        /\ llm_text' = [llm_text EXCEPT ![r] = reply]
        /\ message_count' = [message_count EXCEPT ![r] = count]
        /\ IF keys.murf
           THEN /\ pc' = [pc EXCEPT ![r] = "Synthesizing"]
                /\ calls' = [calls EXCEPT ![r] =
                       Append(log2, Call("synthesize", Prefix(reply, TruncatedLen)))]
                /\ UNCHANGED response
           ELSE /\ pc' = [pc EXCEPT ![r] = "Done"]
                /\ calls' = [calls EXCEPT ![r] = log2]
                /\ response' = [response EXCEPT ![r] =
                       PartialResult(text, reply, sid, count,
                                     "Conversation processed but audio generation unavailable",
                                     "Audio generation temporarily unavailable")]

\* AssistantReply without the credential check of lines 728-741: Murf is
\* always called
AssistantReply_NoMurfCheck(r, store, jrn, text, reply, log) ==
    LET sid == session_id[r]
        store2 == add_message_to_history(store, sid, "assistant", reply)
        count == get_session_message_count(store2, sid)
        log2 == Append(log, Call("append_assistant", reply))
    IN  /\ chat_history_store' = store2
        /\ journal' = Journal(jrn, sid, r, "assistant", reply)
        /\ llm_text' = [llm_text EXCEPT ![r] = reply]
        /\ message_count' = [message_count EXCEPT ![r] = count]
        /\ pc' = [pc EXCEPT ![r] = "Synthesizing"]
        /\ calls' = [calls EXCEPT ![r] = Append(log2, Call("synthesize", reply))]
        /\ UNCHANGED response

\* lines 720-765: append the assistant message, count, and start the Murf call
\* (or return at once without a Murf credential)
AssistantReply(r, store, jrn, text, reply, log) ==
    LET sid == session_id[r]
        store2 == add_message_to_history(store, sid, "assistant", reply)
        count == get_session_message_count(store2, sid)
        log2 == Append(log, Call("append_assistant", reply))
    IN  /\ chat_history_store' = store2
        /\ journal' = Journal(jrn, sid, r, "assistant", reply)
        /\ llm_text' = [llm_text EXCEPT ![r] = reply]
        /\ message_count' = [message_count EXCEPT ![r] = count]
        /\ IF keys.murf
           THEN /\ pc' = [pc EXCEPT ![r] = "Synthesizing"]
                /\ calls' = [calls EXCEPT ![r] = Append(log2, Call("synthesize", reply))]
                /\ UNCHANGED response
           ELSE /\ pc' = [pc EXCEPT ![r] = "Done"]
                /\ calls' = [calls EXCEPT ![r] = log2]
                /\ response' = [response EXCEPT ![r] =
                       PartialResult(text, reply, sid, count,
                                     "Conversation processed but audio generation unavailable",
                                     "Audio generation temporarily unavailable")]

\* POST /agent/chat/{sid} arrives: lines 635-652
\* ChatStart without the check of lines 641-643: transcription is always called
ChatStart_NoKeyCheck(r, sid) ==
    /\ pc[r] = "Idle"
    /\ started < MaxChats
    /\ started' = started + 1
    /\ session_id' = [session_id EXCEPT ![r] = sid]
    /\ pc' = [pc EXCEPT ![r] = "Transcribing"]
    /\ calls' = [calls EXCEPT ![r] = Append(@, Call("transcribe", ""))]
    /\ UNCHANGED <<outcome, message, response>>
    /\ UNCHANGED <<keys, chat_history_store, now, transcribed_text, llm_text, message_count,
                   journal, http, request>>

ChatStart(r, sid) ==
    /\ pc[r] = "Idle"
    /\ started < MaxChats
    /\ started' = started + 1
    /\ session_id' = [session_id EXCEPT ![r] = sid]
    /\ IF ~keys.assemblyai
       THEN /\ outcome' = [outcome EXCEPT ![r].stt = MissingKey]
            /\ generate_fallback_audio(r, FALLBACK_RESPONSES.api_key_missing)
       ELSE /\ pc' = [pc EXCEPT ![r] = "Transcribing"]
            /\ calls' = [calls EXCEPT ![r] = Append(@, Call("transcribe", ""))]
            /\ UNCHANGED <<outcome, message, response>>
    /\ UNCHANGED <<keys, chat_history_store, now, transcribed_text, llm_text, message_count,
                   journal, http, request>>

\* the transcription call ends: lines 654-668 on failure, 670-701 otherwise
\* (and on to 720-765 without a Gemini credential)
TranscribeReturn(r, o) ==
    /\ pc[r] = "Transcribing"
    /\ IF SttFailed(o)
       THEN /\ outcome' = [outcome EXCEPT ![r].stt = o]
            /\ generate_fallback_audio(r, SttFailureMessage(o))
            /\ UNCHANGED <<chat_history_store, transcribed_text, llm_text, message_count,
                           journal>>
       ELSE LET sid == session_id[r]
                store1 == add_message_to_history(chat_history_store, sid, "user", o.text)
                \* line 673 returns the stored list itself when the session exists, so
                \* the append of line 674 shows in chat_history; otherwise a fresh []
                chat_history == IF sid \in DOMAIN chat_history_store
                                THEN store1[sid] ELSE <<>>
                jrn1 == Journal(journal, sid, r, "user", o.text)
                log == Append(calls[r], Call("append_user", o.text))
            IN  /\ transcribed_text' = [transcribed_text EXCEPT ![r] = o.text]
                /\ UNCHANGED message
                /\ IF ~keys.gemini
                   THEN /\ outcome' = [outcome EXCEPT ![r].stt = o, ![r].llm = MissingKey]
                        /\ AssistantReply(r, store1, jrn1, o.text, FALLBACK_RESPONSES.llm_error, log)
                   ELSE /\ outcome' = [outcome EXCEPT ![r].stt = o]
                        /\ chat_history_store' = store1
                        /\ journal' = jrn1
                        /\ pc' = [pc EXCEPT ![r] = "Generating"]
                        /\ calls' = [calls EXCEPT ![r] =
                               Append(log, Call("generate", ConversationContext(chat_history, o.text)))]
                        /\ UNCHANGED <<llm_text, message_count, response>>
    /\ UNCHANGED <<keys, now, started, session_id, http, request>>

\* the generator call ends: lines 703-765
GenerateReturn(r, o) ==
    /\ pc[r] = "Generating"
    /\ outcome' = [outcome EXCEPT ![r].llm = o]
    /\ AssistantReply(r, chat_history_store, journal, transcribed_text[r], LlmText(o), calls[r])
    /\ UNCHANGED <<keys, now, started, session_id, transcribed_text, message, http, request>>

\* the Murf call of the chat handler ends: lines 767-814
SynthesizeReturn(r, o) ==
    /\ pc[r] = "Synthesizing"
    /\ outcome' = [outcome EXCEPT ![r].tts = o]
    /\ response' = [response EXCEPT ![r] =
           SynthResult(o, transcribed_text[r], llm_text[r], session_id[r], message_count[r])]
    /\ pc' = [pc EXCEPT ![r] = "Done"]
    /\ UNCHANGED <<keys, chat_history_store, now, started, session_id, transcribed_text,
                   llm_text, message_count, message, calls, journal, http, request>>

\* FallbackSynthesizeReturn without the `except Exception` of line 106: a failing
\* Murf call escapes the handler and the request ends with no body
FallbackSynthesizeReturn_Uncaught(r, o) ==
    /\ pc[r] = "FallbackSynthesizing"
    /\ outcome' = [outcome EXCEPT ![r].tts = o]
    /\ IF o.kind \in {"timeout", "exception"}
       THEN /\ pc' = [pc EXCEPT ![r] = "Raised"]
            /\ UNCHANGED response
       ELSE /\ pc' = [pc EXCEPT ![r] = "Done"]
            /\ response' = [response EXCEPT ![r] = FallbackResult(message[r], ErrorAudioUrl(o))]
    /\ UNCHANGED <<keys, chat_history_store, now, started, session_id, transcribed_text,
                   llm_text, message_count, message, calls, journal, http, request>>

\* the Murf call of generate_fallback_audio ends: lines 101-117
FallbackSynthesizeReturn(r, o) ==
    /\ pc[r] = "FallbackSynthesizing"
    /\ outcome' = [outcome EXCEPT ![r].tts = o]
    /\ response' = [response EXCEPT ![r] = FallbackResult(message[r], ErrorAudioUrl(o))]
    /\ pc' = [pc EXCEPT ![r] = "Done"]
    /\ UNCHANGED <<keys, chat_history_store, now, started, session_id, transcribed_text,
                   llm_text, message_count, message, calls, journal, http, request>>

\* the response has been sent and the handler's frame is gone
Close(r) ==
    /\ pc[r] = "Done"
    /\ pc' = [pc EXCEPT ![r] = "Idle"]
    /\ session_id' = [session_id EXCEPT ![r] = None]
    /\ transcribed_text' = [transcribed_text EXCEPT ![r] = ""]
    /\ llm_text' = [llm_text EXCEPT ![r] = ""]
    /\ message_count' = [message_count EXCEPT ![r] = 0]
    /\ message' = [message EXCEPT ![r] = None]
    /\ response' = [response EXCEPT ![r] = NoResponse]
    /\ outcome' = [outcome EXCEPT ![r] = NoOutcome]
    /\ calls' = [calls EXCEPT ![r] = <<>>]
    /\ request' = [request EXCEPT ![r] = NoRequest]
    /\ UNCHANGED <<keys, chat_history_store, now, started, journal, http>>

\* DELETE /agent/history/{sid}: lines 858-876 with clear_chat_history, 175-180
ClearHistory(sid) ==
    /\ sid \in DOMAIN chat_history_store
    /\ chat_history_store' = clear_chat_history(chat_history_store, sid)
    /\ journal' = [s \in DOMAIN journal \ {sid} |-> journal[s]]
    /\ UNCHANGED <<keys, now, started, pc, session_id, transcribed_text, llm_text,
                   message_count, message, response, outcome, calls, http, request>>

\* Requests one at a time, every adapter answer, and clears at any moment; the
\* clock does not advance (every append reads the same datetime.now())
Next ==
    \/ \E r \in Serial, sid \in Sessions : ChatStart(r, sid)
    \/ \E r \in Serial, o \in SttOutcomes : TranscribeReturn(r, o)
    \/ \E r \in Serial, o \in LlmOutcomes : GenerateReturn(r, o)
    \/ \E r \in Serial, o \in MurfOutcomes : SynthesizeReturn(r, o)
    \/ \E r \in Serial, o \in MurfOutcomes : FallbackSynthesizeReturn(r, o)
    \/ \E r \in Serial : Close(r)
    \/ \E sid \in Sessions : ClearHistory(sid)

Spec == Init /\ [][Next]_vars

\* Every await of the handler carries a timeout (45 s, 30 s, 30 s, 20 s), so a
\* request that is suspended at an await is always resumed
FairSpec ==
    /\ Spec
    /\ \A r \in Serial :
        /\ WF_vars(\E o \in SttOutcomes : TranscribeReturn(r, o))
        /\ WF_vars(\E o \in LlmOutcomes : GenerateReturn(r, o))
        /\ WF_vars(\E o \in MurfOutcomes : SynthesizeReturn(r, o))
        /\ WF_vars(\E o \in MurfOutcomes : FallbackSynthesizeReturn(r, o))

\* One client that sends its requests one after the other and never clears
QuietNext ==
    \/ \E r \in Serial, sid \in Sessions : ChatStart(r, sid)
    \/ \E r \in Serial, o \in SttOutcomes : TranscribeReturn(r, o)
    \/ \E r \in Serial, o \in LlmOutcomes : GenerateReturn(r, o)
    \/ \E r \in Serial, o \in MurfOutcomes : SynthesizeReturn(r, o)
    \/ \E r \in Serial, o \in MurfOutcomes : FallbackSynthesizeReturn(r, o)
    \/ \E r \in Serial : Close(r)

QuietSpec == Init /\ [][QuietNext]_vars

----------------------------------------------------------------------------
(* The history, clear and sessions endpoints over a store that chat requests  *)
(* fill                                                                       *)

\* exchanges already in session "s1" when the observation starts
MaxExchanges == 5

\* largest reading of datetime.now()
MaxClock == 1

\* datetime.isoformat(): the instant as text
IsoFormat(t) == ToString(t)

\* lines 833-840
SerializableHistory(chat_history) ==
    [i \in DOMAIN chat_history |->
        [role |-> chat_history[i].role,
         content |-> chat_history[i].content,
         timestamp |-> IsoFormat(chat_history[i].timestamp)]]

\* HistoryRequest with setdefault in place of get at line 160: reading an
\* unknown session stores an empty list for it
HistoryRequest_SetDefault(sid) ==
    LET chat_history == get_chat_history(chat_history_store, sid)
    IN  /\ http' = [endpoint |-> "history",
                    session_id |-> sid,
                    messages |-> SerializableHistory(chat_history),
                    message_count |-> Len(chat_history)]
        /\ chat_history_store' =
               [s \in DOMAIN chat_history_store \cup {sid} |->
                   get_chat_history(chat_history_store, s)]
        /\ UNCHANGED <<keys, now, started, pc, session_id, transcribed_text, llm_text,
                       message_count, message, response, outcome, calls, journal, request>>

\* GET /agent/history/{sid}: lines 824-847
HistoryRequest(sid) ==
    LET chat_history == get_chat_history(chat_history_store, sid)
    IN  /\ http' = [endpoint |-> "history",
                    session_id |-> sid,
                    messages |-> SerializableHistory(chat_history),
                    message_count |-> Len(chat_history)]
        /\ UNCHANGED <<keys, chat_history_store, now, started, pc, session_id,
                       transcribed_text, llm_text, message_count, message, response,
                       outcome, calls, journal, request>>

\* lines 177-180: what clear_chat_history returns
clear_returns(store, sid) == sid \in DOMAIN store

\* DELETE /agent/history/{sid}: lines 858-876, with the body it answers
ClearRequest(sid) ==
    LET success == clear_returns(chat_history_store, sid)
    IN  /\ chat_history_store' = clear_chat_history(chat_history_store, sid)
        /\ journal' = [s \in DOMAIN journal \ {sid} |-> journal[s]]
        /\ http' = [endpoint |-> "clear",
                    session_id |-> sid,
                    success |-> success,
                    message |-> IF success THEN "Chat history cleared successfully"
                                ELSE "No history found or already cleared",
                    status |-> "success"]
        /\ UNCHANGED <<keys, now, started, pc, session_id, transcribed_text, llm_text,
                       message_count, message, response, outcome, calls, request>>

\* the order in which a dict of the store's sessions is walked
SessionOrder == <<"s1", "s2">>

\* lines 186-197: the helper get_all_sessions
get_all_sessions(store) ==
    LET present == SelectSeq(SessionOrder,
                             LAMBDA sid : sid \in DOMAIN store /\ store[sid] # <<>>)
    IN  [i \in DOMAIN present |->
            [session_id |-> present[i],
             message_count |-> Len(store[present[i]]),
             created_at |-> store[present[i]][1].timestamp,
             updated_at |-> store[present[i]][Len(store[present[i]])].timestamp]]

\* lines 891-899
SerializableSessions(sessions) ==
    [i \in DOMAIN sessions |->
        [session_id |-> sessions[i].session_id,
         message_count |-> sessions[i].message_count,
         created_at |-> IsoFormat(sessions[i].created_at),
         updated_at |-> IsoFormat(sessions[i].updated_at)]]

\* The module binds the name get_all_sessions twice: to the helper at line 186
\* and then to the endpoint coroutine function at line 883. The call at line
\* 888 finds the later binding, so it returns a coroutine object and never
\* reaches the helper.
Coroutine == [coroutine |-> "get_all_sessions"]

SessionsCall(store) ==
    LET binding == 883
    IN  IF binding = 186 THEN [value |-> get_all_sessions(store)] ELSE Coroutine

\* GET /agent/sessions: lines 882-907; iterating over a coroutine raises the
\* TypeError that line 905 turns into a 500
SessionsRequest ==
    LET sessions == SessionsCall(chat_history_store)
    IN  /\ IF "value" \in DOMAIN sessions
           THEN http' = [endpoint |-> "sessions",
                         status_code |-> 200,
                         sessions |-> SerializableSessions(sessions.value),
                         total_sessions |-> Len(sessions.value)]
           ELSE http' = [endpoint |-> "sessions",
                         status_code |-> 500,
                         detail |-> "Failed to get sessions: 'coroutine' object is not iterable"]
        /\ UNCHANGED <<keys, chat_history_store, now, started, pc, session_id,
                       transcribed_text, llm_text, message_count, message, response,
                       outcome, calls, journal, request>>

\* datetime.now() moves on
Tick ==
    /\ now < MaxClock
    /\ now' = now + 1
    /\ UNCHANGED <<keys, chat_history_store, started, pc, session_id, transcribed_text,
                   llm_text, message_count, message, response, outcome, calls, journal,
                   http, request>>

\* the store after k exchanges "hello" / "hi there" on session "s1"
RECURSIVE Exchanges(_)
Exchanges(k) ==
    IF k = 0 THEN EmptyStore
    ELSE add_message_to_history(
             add_message_to_history(Exchanges(k - 1), "s1", "user", "hello"),
             "s1", "assistant", "hi there")

\* the appends of those exchanges, made by requests that are over
RECURSIVE ExchangesJournal(_)
ExchangesJournal(k) ==
    IF k = 0 THEN EmptyStore
    ELSE Journal(Journal(ExchangesJournal(k - 1), "s1", 0, "user", "hello"),
                 "s1", 0, "assistant", "hi there")

\* the store is empty or "s1" already holds MaxExchanges exchanges; every
\* credential is set
StoreInit ==
    /\ keys = [assemblyai |-> TRUE, gemini |-> TRUE, murf |-> TRUE]
    /\ now = 0
    /\ \E k \in {0, MaxExchanges} :
          /\ chat_history_store = Exchanges(k)
          /\ journal = ExchangesJournal(k)
    /\ started = 0
    /\ pc = [r \in Reqs |-> "Idle"]
    /\ session_id = [r \in Reqs |-> None]
    /\ transcribed_text = [r \in Reqs |-> ""]
    /\ llm_text = [r \in Reqs |-> ""]
    /\ message_count = [r \in Reqs |-> 0]
    /\ message = [r \in Reqs |-> None]
    /\ response = [r \in Reqs |-> NoResponse]
    /\ outcome = [r \in Reqs |-> NoOutcome]
    /\ calls = [r \in Reqs |-> <<>>]
    /\ http = NoAnswer
    /\ request = [r \in Reqs |-> NoRequest]

\* the adapter answers of the store observation
StoreSttOutcomes == {[kind |-> "text", text |-> "hello"]}
StoreLlmOutcomes == {[kind |-> "text", text |-> "hi there"], [kind |-> "timeout", text |-> None]}
StoreMurfOutcomes == {[kind |-> "ok", audioFile |-> AUDIO_URL]}

StoreNext ==
    \/ \E r \in Serial, sid \in Sessions : ChatStart(r, sid)
    \/ \E r \in Serial, o \in StoreSttOutcomes : TranscribeReturn(r, o)
    \/ \E r \in Serial, o \in StoreLlmOutcomes : GenerateReturn(r, o)
    \/ \E r \in Serial, o \in StoreMurfOutcomes : SynthesizeReturn(r, o)
    \/ \E r \in Serial : Close(r)
    \/ \E sid \in Sessions : HistoryRequest(sid)
    \/ \E sid \in Sessions : ClearRequest(sid)
    \/ SessionsRequest
    \/ Tick

StoreSpec == StoreInit /\ [][StoreNext]_vars

\* One client, one request after the other, while the clock may move on
\* between any two steps
ClockNext ==
    \/ QuietNext
    \/ Tick

ClockSpec == Init /\ [][ClockNext]_vars

----------------------------------------------------------------------------
(* Requests in flight at the same time. The handler runs on one event loop:  *)
(* it gives up control only at its awaits, so each action below is one       *)
(* uninterrupted stretch of it.                                              *)

Stages == {"stt", "llm", "tts"}

\* the record of an adapter answer that came after its timeout
Arrived(o) == [f \in DOMAIN o \cup {"arrived"} |-> IF f = "arrived" THEN TRUE ELSE o[f]]

\* LateArrival that takes the late transcript for an answer and stores it
LateArrival_Stores(r, stage) ==
    /\ outcome[r][stage].kind = "timeout"
    /\ "arrived" \notin DOMAIN outcome[r][stage]
    /\ outcome' = [outcome EXCEPT ![r][stage] = Arrived(@)]
    /\ chat_history_store' =
           add_message_to_history(chat_history_store, session_id[r], "user", "hello")
    /\ UNCHANGED <<keys, now, started, pc, session_id, transcribed_text,
                   llm_text, message_count, message, response, calls, journal, http, request>>

\* The call that asyncio.wait_for (lines 649-652, 698-701) or the httpx client
\* (lines 760-765) gave up on ends later: the worker thread of
\* asyncio.to_thread runs to its end and its result is dropped, the answer to
\* a closed HTTP connection is discarded. No code of the handler runs for it.
LateArrival(r, stage) ==
    /\ outcome[r][stage].kind = "timeout"
    /\ "arrived" \notin DOMAIN outcome[r][stage]
    /\ outcome' = [outcome EXCEPT ![r][stage] = Arrived(@)]
    /\ UNCHANGED <<keys, chat_history_store, now, started, pc, session_id, transcribed_text,
                   llm_text, message_count, message, response, calls, journal, http, request>>

\* the adapter answers of the concurrent requests
ConcSttOutcomes ==
    {[kind |-> "text", text |-> "hello"], [kind |-> "timeout", text |-> None]}
ConcLlmOutcomes ==
    {[kind |-> "text", text |-> "hi there"], [kind |-> "timeout", text |-> None]}
ConcMurfOutcomes ==
    {[kind |-> "ok", audioFile |-> AUDIO_URL], [kind |-> "timeout", audioFile |-> None]}

ConcNext ==
    \/ \E r \in Reqs, sid \in Sessions : ChatStart(r, sid)
    \/ \E r \in Reqs, o \in ConcSttOutcomes : TranscribeReturn(r, o)
    \/ \E r \in Reqs, o \in ConcLlmOutcomes : GenerateReturn(r, o)
    \/ \E r \in Reqs, o \in ConcMurfOutcomes : SynthesizeReturn(r, o)
    \/ \E r \in Reqs, o \in ConcMurfOutcomes : FallbackSynthesizeReturn(r, o)
    \/ \E r \in Reqs, stage \in Stages : LateArrival(r, stage)

ConcSpec == Init /\ [][ConcNext]_vars

\* Requests in flight at the same time on one session or on two, and clears
\* at any moment
FrameNext ==
    \/ \E r \in Reqs, sid \in Sessions : ChatStart(r, sid)
    \/ \E r \in Reqs, o \in ConcSttOutcomes : TranscribeReturn(r, o)
    \/ \E r \in Reqs, o \in ConcLlmOutcomes : GenerateReturn(r, o)
    \/ \E r \in Reqs, o \in ConcMurfOutcomes : SynthesizeReturn(r, o)
    \/ \E r \in Reqs, o \in ConcMurfOutcomes : FallbackSynthesizeReturn(r, o)
    \/ \E sid \in Sessions : ClearHistory(sid)

FrameSpec == Init /\ [][FrameNext]_vars

----------------------------------------------------------------------------
(* POST /tts/echo: lines 373-497 *)

\* lines 418-425, 453-460, 464-471, 474-481
EchoPartial(t, msg, fallback_text) ==
    [transcription |-> t,
     llm_response |-> t,
     audio_url |-> None,
     status |-> "partial_success",
     message |-> msg,
     fallback_text |-> fallback_text]

\* lines 445-450
EchoSuccess(t, url) ==
    [transcription |-> t,
     llm_response |-> t,
     audio_url |-> url,
     status |-> "success"]

\* EchoResult without the status check of line 442: any HTTP answer is a success
EchoResult_NoStatusCheck(o, t) ==
    CASE o.kind \in {"ok", "no_audio_file", "non_200"} -> EchoSuccess(t, o.audioFile)
      [] o.kind = "timeout" ->
            EchoPartial(t, "Audio generation timed out",
                        "I heard: '" \o t \o "' but audio generation is taking too long.")
      [] OTHER ->
            EchoPartial(t, "Audio generation failed",
                        "I heard: '" \o t \o "' but can't generate audio right now.")

\* lines 442-481: the body the Murf answer resolves to
EchoResult(o, t) ==
    CASE o.kind \in {"ok", "no_audio_file"} -> EchoSuccess(t, o.audioFile)
      [] o.kind = "non_200" ->
            EchoPartial(t, "Text processed but audio generation failed",
                        "I heard: '" \o t \o "' (audio generation temporarily unavailable)")
      [] o.kind = "timeout" ->
            EchoPartial(t, "Audio generation timed out",
                        "I heard: '" \o t \o "' but audio generation is taking too long.")
      [] OTHER ->
            EchoPartial(t, "Audio generation failed",
                        "I heard: '" \o t \o "' but can't generate audio right now.")

\* lines 378-394: up to the await of the transcription, or into
\* generate_fallback_audio without an AssemblyAI credential
EchoStart(r) ==
    /\ pc[r] = "Idle"
    /\ started < MaxChats
    /\ started' = started + 1
    /\ request' = [request EXCEPT ![r] = [endpoint |-> "echo"]]
    /\ IF ~keys.assemblyai
       THEN /\ outcome' = [outcome EXCEPT ![r].stt = MissingKey]
            /\ generate_fallback_audio(r, FALLBACK_RESPONSES.api_key_missing)
       ELSE /\ pc' = [pc EXCEPT ![r] = "EchoTranscribing"]
            /\ calls' = [calls EXCEPT ![r] = Append(@, Call("transcribe", ""))]
            /\ UNCHANGED <<outcome, message, response>>
    /\ UNCHANGED <<keys, chat_history_store, now, session_id, transcribed_text, llm_text,
                   message_count, journal, http>>

\* the transcription call ends: lines 396-411 on failure (the same choice of
\* apology as in the chat), 413-440 otherwise
EchoTranscribeReturn(r, o) ==
    /\ pc[r] = "EchoTranscribing"
    /\ IF SttFailed(o)
       THEN /\ outcome' = [outcome EXCEPT ![r].stt = o]
            /\ generate_fallback_audio(r, SttFailureMessage(o))
            /\ UNCHANGED transcribed_text
       ELSE /\ transcribed_text' = [transcribed_text EXCEPT ![r] = o.text]
            /\ UNCHANGED message
            /\ IF ~keys.murf
               THEN /\ outcome' = [outcome EXCEPT ![r].stt = o, ![r].tts = MissingKey]
                    /\ pc' = [pc EXCEPT ![r] = "Done"]
                    /\ response' = [response EXCEPT ![r] =
                           EchoPartial(o.text,
                               "Text transcribed successfully, but audio generation is unavailable",
                               "I heard you say: '" \o o.text
                                   \o "', but I can't generate audio right now.")]
                    /\ UNCHANGED calls
               ELSE /\ outcome' = [outcome EXCEPT ![r].stt = o]
                    /\ pc' = [pc EXCEPT ![r] = "EchoSynthesizing"]
                    /\ calls' = [calls EXCEPT ![r] = Append(@, Call("synthesize", o.text))]
                    /\ UNCHANGED response
    /\ UNCHANGED <<keys, chat_history_store, now, started, session_id, llm_text,
                   message_count, journal, http, request>>

\* the Murf call of the echo ends: lines 442-481
EchoSynthesizeReturn(r, o) ==
    /\ pc[r] = "EchoSynthesizing"
    /\ outcome' = [outcome EXCEPT ![r].tts = o]
    /\ response' = [response EXCEPT ![r] = EchoResult(o, transcribed_text[r])]
    /\ pc' = [pc EXCEPT ![r] = "Done"]
    /\ UNCHANGED <<keys, chat_history_store, now, started, session_id, transcribed_text,
                   llm_text, message_count, message, calls, journal, http, request>>

----------------------------------------------------------------------------
(* POST /generate-audio: lines 500-628 *)

\* line 517
MaxTtsLen == 5000

\* `not text.strip()`: the text has no character that is not whitespace
StripsToEmpty(text) ==
    \A i \in 1..Len(text) : SubSeq(text, i, i) \in Whitespace

\* an HTTPException with a detail of two fields, as FastAPI answers it
Rejection(code, error, fallback) ==
    [status_code |-> code, detail |-> [error |-> error, fallback |-> fallback]]

\* the texts a caller sends: empty, blank, short, of exactly 5000 characters,
\* of 5001, 5001 of which two are surrounding spaces, and 5001 spaces
TtsTexts ==
    {"", "   ", "hello", Rep("a", MaxTtsLen), Rep("a", MaxTtsLen + 1),
     " " \o Rep("a", MaxTtsLen - 1) \o " ", Rep(" ", MaxTtsLen + 1)}

\* Murf's answer to the direct request: 200 with or without an audioFile, 401,
\* 429, another status code, a timeout, a network error, any other exception
TtsMurfOutcomes ==
    [kind : {"ok"}, audioFile : {AUDIO_URL}]
        \cup [kind : {"no_audio_file", "unauthorized", "rate_limited", "non_200",
                      "timeout", "request_error", "exception"},
              audioFile : {None}]

\* TtsStart with the credential check of lines 526-537 before the validation
\* of lines 507-523
TtsStart_KeyFirst(r, text) ==
    /\ pc[r] = "Idle"
    /\ started < MaxChats
    /\ started' = started + 1
    /\ request' = [request EXCEPT ![r] = [endpoint |-> "tts", text |-> text]]
    /\ IF ~keys.murf
       THEN /\ pc' = [pc EXCEPT ![r] = "Done"]
            /\ response' = [response EXCEPT ![r] =
                   Rejection(503, "Text-to-speech service unavailable",
                             FALLBACK_RESPONSES.api_key_missing)]
            /\ outcome' = [outcome EXCEPT ![r].tts = MissingKey]
            /\ UNCHANGED calls
       ELSE IF text = "" \/ StripsToEmpty(text)
       THEN /\ pc' = [pc EXCEPT ![r] = "Done"]
            /\ response' = [response EXCEPT ![r] =
                   Rejection(400, "Empty text provided",
                             "Please provide some text to convert to speech")]
            /\ UNCHANGED <<outcome, calls>>
       ELSE IF Len(text) > MaxTtsLen
       THEN /\ pc' = [pc EXCEPT ![r] = "Done"]
            /\ response' = [response EXCEPT ![r] =
                   Rejection(413, "Text too long",
                             "Please provide shorter text (max 5000 characters)")]
            /\ UNCHANGED <<outcome, calls>>
       ELSE /\ pc' = [pc EXCEPT ![r] = "TtsSynthesizing"]
            /\ calls' = [calls EXCEPT ![r] = Append(@, Call("synthesize", text))]
            /\ UNCHANGED <<outcome, response>>
    /\ UNCHANGED <<keys, chat_history_store, now, session_id, transcribed_text, llm_text,
                   message_count, message, journal, http>>

\* lines 505-560: validation, credential check, then up to the await of Murf
TtsStart(r, text) ==
    /\ pc[r] = "Idle"
    /\ started < MaxChats
    /\ started' = started + 1
    /\ request' = [request EXCEPT ![r] = [endpoint |-> "tts", text |-> text]]
    /\ IF text = "" \/ StripsToEmpty(text)
       THEN /\ pc' = [pc EXCEPT ![r] = "Done"]
            /\ response' = [response EXCEPT ![r] =
                   Rejection(400, "Empty text provided",
                             "Please provide some text to convert to speech")]
            /\ UNCHANGED <<outcome, calls>>
       ELSE IF Len(text) > MaxTtsLen
       THEN /\ pc' = [pc EXCEPT ![r] = "Done"]
            /\ response' = [response EXCEPT ![r] =
                   Rejection(413, "Text too long",
                             "Please provide shorter text (max 5000 characters)")]
            /\ UNCHANGED <<outcome, calls>>
       ELSE IF ~keys.murf
       THEN /\ pc' = [pc EXCEPT ![r] = "Done"]
            /\ response' = [response EXCEPT ![r] =
                   Rejection(503, "Text-to-speech service unavailable",
                             FALLBACK_RESPONSES.api_key_missing)]
            /\ outcome' = [outcome EXCEPT ![r].tts = MissingKey]
            /\ UNCHANGED calls
       ELSE /\ pc' = [pc EXCEPT ![r] = "TtsSynthesizing"]
            /\ calls' = [calls EXCEPT ![r] = Append(@, Call("synthesize", text))]
            /\ UNCHANGED <<outcome, response>>
    /\ UNCHANGED <<keys, chat_history_store, now, session_id, transcribed_text, llm_text,
                   message_count, message, journal, http>>

\* lines 562-628: the answer the Murf outcome resolves to; a 200 without an
\* audioFile gives the default "" of line 573
TtsResult(o) ==
    CASE o.kind = "ok" ->
            [status_code |-> 200, audio_url |-> o.audioFile, status |-> "success"]
      [] o.kind = "no_audio_file" ->
            [status_code |-> 200, audio_url |-> "", status |-> "success"]
      [] o.kind = "unauthorized" ->
            Rejection(503, "Authentication failed",
                "The text-to-speech service is currently unavailable due to authentication issues")
      [] o.kind = "rate_limited" ->
            Rejection(429, "Rate limit exceeded",
                "Too many requests. Please wait a moment and try again.")
      [] o.kind = "non_200" ->
            Rejection(503, "TTS service error: 500", FALLBACK_RESPONSES.tts_error)
      [] o.kind = "timeout" ->
            Rejection(408, "Request timeout",
                "Audio generation is taking too long. Please try again with shorter text.")
      [] o.kind = "request_error" ->
            Rejection(503, "Network error",
                "Unable to connect to the text-to-speech service. Please check your connection and try again.")
      [] OTHER ->
            Rejection(500, "Unexpected error: exception", FALLBACK_RESPONSES.tts_error)

\* the Murf call of the direct request ends
TtsReturn(r, o) ==
    /\ pc[r] = "TtsSynthesizing"
    /\ outcome' = [outcome EXCEPT ![r].tts = o]
    /\ response' = [response EXCEPT ![r] = TtsResult(o)]
    /\ pc' = [pc EXCEPT ![r] = "Done"]
    /\ UNCHANGED <<keys, chat_history_store, now, started, session_id, transcribed_text,
                   llm_text, message_count, message, calls, journal, http, request>>

----------------------------------------------------------------------------
(* POST /transcribe/file: lines 272-370 *)

\* line 299: 50 * 1024 * 1024
MaxFileSize == 52428800

\* the uploads a caller sends; size 0 also stands for an upload without a size
Files ==
    [filename : {"", "speech.wav"}, size : {0, 1024, MaxFileSize, MaxFileSize + 1}]

\* FileStart with the size limit of lines 298-306 checked before the validity
\* of the file, lines 288-296
FileStart_SizeFirst(r, file) ==
    /\ pc[r] = "Idle"
    /\ started < MaxChats
    /\ started' = started + 1
    /\ request' = [request EXCEPT ![r] = [endpoint |-> "transcribe", file |-> file]]
    /\ IF ~keys.assemblyai
       THEN /\ pc' = [pc EXCEPT ![r] = "Done"]
            /\ response' = [response EXCEPT ![r] =
                   Rejection(503, "Speech recognition service unavailable",
                             FALLBACK_RESPONSES.api_key_missing)]
            /\ outcome' = [outcome EXCEPT ![r].stt = MissingKey]
            /\ UNCHANGED calls
       ELSE IF file.size > MaxFileSize
       THEN /\ pc' = [pc EXCEPT ![r] = "Done"]
            /\ response' = [response EXCEPT ![r] =
                   Rejection(413, "File too large",
                             "Please upload a smaller audio file (max 50MB)")]
            /\ UNCHANGED <<outcome, calls>>
       ELSE IF file.filename = "" \/ file.size = 0
       THEN /\ pc' = [pc EXCEPT ![r] = "Done"]
            /\ response' = [response EXCEPT ![r] =
                   Rejection(400, "Invalid audio file", "Please upload a valid audio file")]
            /\ UNCHANGED <<outcome, calls>>
       ELSE /\ pc' = [pc EXCEPT ![r] = "FileTranscribing"]
            /\ calls' = [calls EXCEPT ![r] = Append(@, Call("transcribe", ""))]
            /\ UNCHANGED <<outcome, response>>
    /\ UNCHANGED <<keys, chat_history_store, now, session_id, transcribed_text, llm_text,
                   message_count, message, journal, http>>

\* lines 277-320: the three checks, then up to the await of the transcription
FileStart(r, file) ==
    /\ pc[r] = "Idle"
    /\ started < MaxChats
    /\ started' = started + 1
    /\ request' = [request EXCEPT ![r] = [endpoint |-> "transcribe", file |-> file]]
    /\ IF ~keys.assemblyai
       THEN /\ pc' = [pc EXCEPT ![r] = "Done"]
            /\ response' = [response EXCEPT ![r] =
                   Rejection(503, "Speech recognition service unavailable",
                             FALLBACK_RESPONSES.api_key_missing)]
            /\ outcome' = [outcome EXCEPT ![r].stt = MissingKey]
            /\ UNCHANGED calls
       ELSE IF file.filename = "" \/ file.size = 0
       THEN /\ pc' = [pc EXCEPT ![r] = "Done"]
            /\ response' = [response EXCEPT ![r] =
                   Rejection(400, "Invalid audio file", "Please upload a valid audio file")]
            /\ UNCHANGED <<outcome, calls>>
       ELSE IF file.size > MaxFileSize
       THEN /\ pc' = [pc EXCEPT ![r] = "Done"]
            /\ response' = [response EXCEPT ![r] =
                   Rejection(413, "File too large",
                             "Please upload a smaller audio file (max 50MB)")]
            /\ UNCHANGED <<outcome, calls>>
       ELSE /\ pc' = [pc EXCEPT ![r] = "FileTranscribing"]
            /\ calls' = [calls EXCEPT ![r] = Append(@, Call("transcribe", ""))]
            /\ UNCHANGED <<outcome, response>>
    /\ UNCHANGED <<keys, chat_history_store, now, session_id, transcribed_text, llm_text,
                   message_count, message, journal, http>>

\* lines 321-370: the answer the transcription outcome resolves to
FileResult(o) ==
    CASE o.kind = "timeout" ->
            Rejection(408, "Transcription timeout",
                "The audio file is taking too long to process. Please try with a shorter recording.")
      [] o.kind = "error" ->
            Rejection(500, "Transcription failed: error", FALLBACK_RESPONSES.stt_error)
      [] o.kind = "exception" ->
            Rejection(500, "Transcription service error: exception",
                      FALLBACK_RESPONSES.stt_error)
      [] OTHER ->
            IF IsBlank(o.text)
            THEN Rejection(400, "No speech detected", FALLBACK_RESPONSES.no_speech)
            ELSE [status_code |-> 200, transcription |-> o.text, status |-> "success"]

\* the transcription call of the file endpoint ends
FileTranscribeReturn(r, o) ==
    /\ pc[r] = "FileTranscribing"
    /\ outcome' = [outcome EXCEPT ![r].stt = o]
    /\ response' = [response EXCEPT ![r] = FileResult(o)]
    /\ pc' = [pc EXCEPT ![r] = "Done"]
    /\ UNCHANGED <<keys, chat_history_store, now, started, session_id, transcribed_text,
                   llm_text, message_count, message, calls, journal, http, request>>

----------------------------------------------------------------------------
(* GET /health: lines 119-128 and 204-219 *)

\* bool(os.getenv(...)) of each credential
validate_api_keys ==
    [assemblyai |-> keys.assemblyai, gemini |-> keys.gemini, murf |-> keys.murf]

Availability(present) == IF present THEN "available" ELSE "unavailable"

\* health_check with all() for the any() of line 212
health_check_All ==
    LET api_status == validate_api_keys
    IN  [endpoint |-> "health",
         status |-> IF \A k \in DOMAIN api_status : api_status[k]
                    THEN "healthy" ELSE "degraded",
         services |-> [speech_to_text |-> Availability(api_status.assemblyai),
                       llm |-> Availability(api_status.gemini),
                       text_to_speech |-> Availability(api_status.murf)],
         message |-> IF \A k \in DOMAIN api_status : api_status[k]
                     THEN "All services operational"
                     ELSE "Some services may have limited functionality"]

\* lines 209-219: the body of the answer
health_check ==
    LET api_status == validate_api_keys
    IN  [endpoint |-> "health",
         status |-> IF \E k \in DOMAIN api_status : api_status[k]
                    THEN "healthy" ELSE "degraded",
         services |-> [speech_to_text |-> Availability(api_status.assemblyai),
                       llm |-> Availability(api_status.gemini),
                       text_to_speech |-> Availability(api_status.murf)],
         message |-> IF \A k \in DOMAIN api_status : api_status[k]
                     THEN "All services operational"
                     ELSE "Some services may have limited functionality"]

HealthRequest ==
    /\ http' = health_check
    /\ UNCHANGED <<keys, chat_history_store, now, started, pc, session_id,
                   transcribed_text, llm_text, message_count, message, response,
                   outcome, calls, journal, request>>

----------------------------------------------------------------------------
(* POST /generate-error-audio: lines 221-270 *)

\* the JSON objects a caller sends: with a message, and without one
ErrorBodies == {[message |-> "The upload failed"], [message |-> None]}

\* line 227: request.get("message", "An error occurred")
ErrorMessage(body) == IF body.message = None THEN "An error occurred" ELSE body.message

\* ErrorAudioStart without the credential check of lines 229-231
ErrorAudioStart_NoKeyCheck(r, body) ==
    /\ pc[r] = "Idle"
    /\ started < MaxChats
    /\ started' = started + 1
    /\ request' = [request EXCEPT ![r] = [endpoint |-> "error_audio", body |-> body]]
    /\ pc' = [pc EXCEPT ![r] = "ErrorAudioSynthesizing"]
    /\ calls' = [calls EXCEPT ![r] = Append(@, Call("synthesize", ErrorMessage(body)))]
    /\ UNCHANGED <<outcome, response>>
    /\ UNCHANGED <<keys, chat_history_store, now, session_id, transcribed_text, llm_text,
                   message_count, message, journal, http>>

\* lines 226-254: up to the await of Murf, or the answer without a credential
ErrorAudioStart(r, body) ==
    /\ pc[r] = "Idle"
    /\ started < MaxChats
    /\ started' = started + 1
    /\ request' = [request EXCEPT ![r] = [endpoint |-> "error_audio", body |-> body]]
    /\ IF ~keys.murf
       THEN /\ pc' = [pc EXCEPT ![r] = "Done"]
            /\ response' = [response EXCEPT ![r] =
                   [audio_url |-> None, status |-> "unavailable",
                    message |-> "TTS service unavailable"]]
            /\ outcome' = [outcome EXCEPT ![r].tts = MissingKey]
            /\ UNCHANGED calls
       ELSE /\ pc' = [pc EXCEPT ![r] = "ErrorAudioSynthesizing"]
            /\ calls' = [calls EXCEPT ![r] = Append(@, Call("synthesize", ErrorMessage(body)))]
            /\ UNCHANGED <<outcome, response>>
    /\ UNCHANGED <<keys, chat_history_store, now, session_id, transcribed_text, llm_text,
                   message_count, message, journal, http>>

\* lines 256-270: the answer the Murf outcome resolves to
ErrorAudioResult(o) ==
    CASE o.kind \in {"ok", "no_audio_file"} ->
            [audio_url |-> o.audioFile, status |-> "success",
             message |-> "Error audio generated successfully"]
      [] o.kind = "non_200" ->
            [audio_url |-> None, status |-> "failed",
             message |-> "Could not generate error audio"]
      [] OTHER ->
            [audio_url |-> None, status |-> "error", message |-> o.kind]

\* the Murf call of the error-audio endpoint ends
ErrorAudioReturn(r, o) ==
    /\ pc[r] = "ErrorAudioSynthesizing"
    /\ outcome' = [outcome EXCEPT ![r].tts = o]
    /\ response' = [response EXCEPT ![r] = ErrorAudioResult(o)]
    /\ pc' = [pc EXCEPT ![r] = "Done"]
    /\ UNCHANGED <<keys, chat_history_store, now, started, session_id, transcribed_text,
                   llm_text, message_count, message, calls, journal, http, request>>

----------------------------------------------------------------------------
(* The endpoints around the chat, one request after the other *)

EdgeNext ==
    \/ \E r \in Serial : EchoStart(r)
    \/ \E r \in Serial, o \in SttOutcomes : EchoTranscribeReturn(r, o)
    \/ \E r \in Serial, o \in MurfOutcomes : EchoSynthesizeReturn(r, o)
    \/ \E r \in Serial, o \in MurfOutcomes : FallbackSynthesizeReturn(r, o)
    \/ \E r \in Serial, text \in TtsTexts : TtsStart(r, text)
    \/ \E r \in Serial, o \in TtsMurfOutcomes : TtsReturn(r, o)
    \/ \E r \in Serial, file \in Files : FileStart(r, file)
    \/ \E r \in Serial, o \in SttOutcomes : FileTranscribeReturn(r, o)
    \/ \E r \in Serial, body \in ErrorBodies : ErrorAudioStart(r, body)
    \/ \E r \in Serial, o \in MurfOutcomes : ErrorAudioReturn(r, o)
    \/ HealthRequest
    \/ \E r \in Serial : Close(r)

EdgeSpec == Init /\ [][EdgeNext]_vars

----------------------------------------------------------------------------
(* Vocabulary of the properties *)

Statuses == {"success", "partial_success", "fallback", "error"}

CallsOf(r, op) == {i \in DOMAIN calls[r] : calls[r][i].op = op}

Invoked(r, op) == CallsOf(r, op) # {}

TextsOf(r, op) == {calls[r][i].text : i \in CallsOf(r, op)}

\* the transcription stage of r ended without usable text
SttErrored(r) ==
    \/ outcome[r].stt.kind \in {"error", "timeout", "exception"}
    \/ outcome[r].stt.kind = "text" /\ IsBlank(outcome[r].stt.text)

\* r reached Transcribed
SttSucceeded(r) ==
    outcome[r].stt.kind = "text" /\ ~IsBlank(outcome[r].stt.text)

\* the generation stage of r failed: timeout, missing credential, empty
\* response, adapter exception
LlmFailed(r) ==
    \/ outcome[r].llm.kind \in {"timeout", "exception", "missing_key"}
    \/ outcome[r].llm.kind = "text" /\ outcome[r].llm.text \in {None, ""}

LlmSucceeded(r) ==
    outcome[r].llm.kind = "text" /\ outcome[r].llm.text \notin {None, ""}

\* the synthesis call was made and did not produce audio
TtsFailed(r) == outcome[r].tts.kind \in {"non_200", "timeout", "exception"}

----------------------------------------------------------------------------
(* C1: every chat request that has started eventually reaches Done with a    *)
(* body whose status is one of the four statuses, whatever transcription,   *)
(* generation and synthesis answered; no request ends without a body.       *)
C1_AlwaysDone ==
    \A r \in Reqs :
        (pc[r] # "Idle") ~> (pc[r] = "Done" /\ response[r].status \in Statuses)

\* a request is Done after its generation raised and its synthesis timed out
C1_Witness ==
    \E r \in Reqs :
        /\ pc[r] = "Done"
        /\ SttSucceeded(r)
        /\ outcome[r].llm.kind = "exception"
        /\ outcome[r].tts.kind = "timeout"
        /\ response[r].status \in Statuses

----------------------------------------------------------------------------
\* the apology each kind of transcription failure selects
SttApology(o) ==
    IF o.kind = "timeout" THEN STT_TIMEOUT_MESSAGE
    ELSE IF o.kind = "text" THEN FALLBACK_RESPONSES.no_speech
    ELSE FALLBACK_RESPONSES.stt_error

(* C2 as stated: when transcription ends in an adapter error, a blank text  *)
(* or a timeout, the generator is never invoked, the transcription apology  *)
(* is passed to the synthesis adapter, and the body has status fallback.    *)
C2_AsStated ==
    \A r \in Reqs :
        (pc[r] = "Done" /\ SttErrored(r)) =>
            /\ ~Invoked(r, "generate")
            /\ TextsOf(r, "synthesize") = {SttApology(outcome[r].stt)}
            /\ response[r].status = "fallback"

(* C2 amended: the generator is never invoked and the status is fallback;   *)
(* the transcription apology is passed to the synthesis adapter when the    *)
(* synthesis credential is present, and nothing is passed when it is not.   *)
C2_SttFailureFallback ==
    \A r \in Reqs :
        SttErrored(r) =>
            /\ ~Invoked(r, "generate")
            /\ ~Invoked(r, "append_user")
            /\ pc[r] \in {"FallbackSynthesizing", "Done"}
            /\ TextsOf(r, "synthesize") =
                   IF keys.murf THEN {SttApology(outcome[r].stt)} ELSE {}
            /\ pc[r] = "Done" =>
                   /\ response[r].status = "fallback"
                   /\ response[r].llm_response = SttApology(outcome[r].stt)

\* a blank transcript ended in a fallback body after its apology was synthesized
C2_Witness ==
    \E r \in Reqs :
        /\ pc[r] = "Done"
        /\ outcome[r].stt.kind = "text"
        /\ outcome[r].stt.text = "  "
        /\ outcome[r].tts.kind = "ok"
        /\ TextsOf(r, "synthesize") = {FALLBACK_RESPONSES.no_speech}
        /\ response[r].status = "fallback"

----------------------------------------------------------------------------
ResultFields ==
    {"transcription", "llm_response", "audio_url", "session_id", "message_count", "status"}

(* C3: every body returned by the chat pipeline carries transcription,      *)
(* reply text, audio reference, session_id, message_count and a status of   *)
(* the four, and its session_id is the request's, whichever stage failed.   *)
C3_UniformShape ==
    \A r \in Reqs :
        pc[r] = "Done" =>
            /\ ResultFields \subseteq DOMAIN response[r]
            /\ response[r].status \in Statuses
            /\ response[r].session_id = session_id[r]

----------------------------------------------------------------------------
GenerationFallbacks == {FALLBACK_RESPONSES.llm_error, LLM_TIMEOUT_MESSAGE}

----------------------------------------------------------------------------
OrderedCalls(r) ==
    /\ \A j \in CallsOf(r, "generate") : \E i \in CallsOf(r, "append_user") : i < j
    /\ \A k \in CallsOf(r, "append_assistant") :
            /\ \E i \in CallsOf(r, "append_user") : i < k
            /\ \A j \in CallsOf(r, "generate") : j < k
            /\ \A m \in CallsOf(r, "synthesize") : k < m
    /\ Cardinality(CallsOf(r, "append_user")) <= 1
    /\ Cardinality(CallsOf(r, "generate")) <= 1
    /\ Cardinality(CallsOf(r, "append_assistant")) <= 1
    /\ (SttSucceeded(r) /\ pc[r] \in {"Synthesizing", "Done"}) =>
            Cardinality(CallsOf(r, "append_assistant")) = 1
    /\ (SttSucceeded(r) /\ pc[r] = "Done") =>
            response[r].message_count = message_count[r]

\* the step of r that appends its assistant message
AppendsAssistant(r) ==
    ~Invoked(r, "append_assistant") /\ Invoked(r, "append_assistant")'

(* C5: in one request the user message is appended before the generator is  *)
(* invoked, exactly one assistant message is appended after generation       *)
(* resolves and before synthesis is invoked, and the message_count taken     *)
(* for the body counts that assistant message, which is then the last of     *)
(* the session.                                                              *)
C5_StagesOrdered ==
    /\ [](\A r \in Reqs : OrderedCalls(r))
    /\ [][\A r \in Reqs :
            AppendsAssistant(r) =>
                LET h == chat_history_store'[session_id'[r]]
                IN  /\ message_count'[r] = Len(h)
                    /\ h[Len(h)].role = "assistant"
                    /\ h[Len(h)].content = llm_text'[r]
                    /\ pc'[r] = "Done" => response'[r].message_count = Len(h)]_vars

\* a request went through append, generate, append, synthesize and returned
C5_Witness ==
    \E r \in Reqs :
        /\ pc[r] = "Done"
        /\ Len(calls[r]) = 5
        /\ calls[r][2].op = "append_user"
        /\ calls[r][3].op = "generate"
        /\ calls[r][4].op = "append_assistant"
        /\ calls[r][5].op = "synthesize"
        /\ response[r].message_count = 2

----------------------------------------------------------------------------
\* the step of r in which its generator call times out
LlmTimesOut(r) ==
    outcome[r].llm.kind # "timeout" /\ outcome'[r].llm.kind = "timeout"

(* C6: when the generator call times out, the assistant message appended to *)
(* the session is the llm_error text or the timeout apology, it is in the   *)
(* store after the step, and it is the reply text of the returned body.     *)
C6_TimeoutReply ==
    /\ [](\A r \in Reqs :
            outcome[r].llm.kind = "timeout" =>
                /\ llm_text[r] \in GenerationFallbacks
                /\ TextsOf(r, "append_assistant") = {llm_text[r]}
                /\ pc[r] = "Done" => response[r].llm_response = llm_text[r])
    /\ [][\A r \in Reqs :
            LlmTimesOut(r) =>
                LET h == chat_history_store'[session_id[r]]
                IN  /\ h[Len(h)].role = "assistant"
                    /\ h[Len(h)].content = llm_text'[r]
                    /\ h[Len(h)].content \in GenerationFallbacks]_vars

\* a request whose generator timed out returned the timeout apology as reply
C6_Witness ==
    \E r \in Reqs :
        /\ pc[r] = "Done"
        /\ outcome[r].llm.kind = "timeout"
        /\ response[r].llm_response = LLM_TIMEOUT_MESSAGE
        /\ session_id[r] \in DOMAIN chat_history_store

----------------------------------------------------------------------------
(* C7: for every generated reply (stripped, as line 707 takes it): if it is *)
(* longer than 3000 characters the text passed to synthesis is its first    *)
(* 2900 characters followed by the continuation suffix, otherwise it is the *)
(* stripped reply unchanged.                                                *)
C7_Truncation ==
    \A r \in Reqs :
        (LlmSucceeded(r) /\ keys.murf) =>
            LET reply == Strip(outcome[r].llm.text)
            IN  TextsOf(r, "synthesize") =
                    {IF Len(reply) > 3000
                     THEN SubSeq(reply, 1, 2900) \o CONTINUATION_SUFFIX
                     ELSE reply}

\* a reply of 3001 characters went to synthesis as 2900 characters and the suffix
C7_Witness ==
    \E r \in Reqs :
        /\ LlmSucceeded(r)
        /\ Len(outcome[r].llm.text) = 3001
        /\ \E t \in TextsOf(r, "synthesize") :
                /\ Len(t) = 2900 + Len(CONTINUATION_SUFFIX)
                /\ SubSeq(t, 1, 2900) = SubSeq(outcome[r].llm.text, 1, 2900)

----------------------------------------------------------------------------
(* C8: when transcription and generation succeeded and the synthesis call   *)
(* fails (non-2xx, exception, timeout), the body has status partial_success, *)
(* no audio reference, and a fallback_text that contains the transcription  *)
(* and the reply text.                                                      *)
C8_SynthFailurePartial ==
    \A r \in Reqs :
        (pc[r] = "Done" /\ SttSucceeded(r) /\ LlmSucceeded(r) /\ TtsFailed(r)) =>
            /\ response[r].status = "partial_success"
            /\ response[r].audio_url = None
            /\ "fallback_text" \in DOMAIN response[r]
            /\ Contains(response[r].fallback_text, outcome[r].stt.text)
            /\ Contains(response[r].fallback_text, response[r].llm_response)
            /\ response[r].llm_response = llm_text[r]

\* a request with a real reply whose synthesis answered non-2xx
C8_Witness ==
    \E r \in Reqs :
        /\ pc[r] = "Done"
        /\ SttSucceeded(r)
        /\ outcome[r].stt.text = "hello"
        /\ outcome[r].llm.kind = "text"
        /\ outcome[r].llm.text = "hi there"
        /\ outcome[r].tts.kind = "non_200"
        /\ response[r].status = "partial_success"

----------------------------------------------------------------------------
(* C9: when the synthesis call succeeds the audio reference is populated,   *)
(* and the status is success if no earlier stage failed and fallback if the *)
(* transcription or the generation stage failed.                            *)
C9_AsStated ==
    \A r \in Reqs :
        (pc[r] = "Done" /\ outcome[r].tts.kind = "ok") =>
            /\ response[r].audio_url = outcome[r].tts.audioFile
            /\ response[r].audio_url # None
            /\ response[r].status =
                   IF SttSucceeded(r) /\ LlmSucceeded(r) THEN "success" ELSE "fallback"

----------------------------------------------------------------------------
(* C10: whenever synthesis is attempted and fails, also for a transcription *)
(* or generation apology, the body has no audio reference, status           *)
(* partial_success and a fallback_text, the "taking too long" one on a      *)
(* timeout.                                                                 *)
C10_AsStated ==
    \A r \in Reqs :
        (pc[r] = "Done" /\ TtsFailed(r)) =>
            /\ response[r].audio_url = None
            /\ response[r].status = "partial_success"
            /\ "fallback_text" \in DOMAIN response[r]
            /\ response[r].fallback_text # ""
            /\ outcome[r].tts.kind = "timeout" =>
                   Contains(response[r].fallback_text, "taking too long")

----------------------------------------------------------------------------
\* the texts handed to the synthesis adapter when the text to speak is t:
\* the call is made only with a Murf credential
SpokenWhenPossible(t) == IF keys.murf THEN {t} ELSE {}

(* C11 as stated: when the AssemblyAI or the Gemini credential is absent    *)
(* the adapter is not invoked, the api_key_missing message stands in for     *)
(* the stage's output, and that message is passed to the synthesis adapter.  *)
C11_AsStated ==
    \A r \in Reqs :
        /\ (pc[r] = "Done" /\ ~keys.assemblyai) =>
               /\ ~Invoked(r, "transcribe")
               /\ response[r].llm_response = FALLBACK_RESPONSES.api_key_missing
               /\ TextsOf(r, "synthesize") = {FALLBACK_RESPONSES.api_key_missing}
        /\ (pc[r] = "Done" /\ SttSucceeded(r) /\ ~keys.gemini) =>
               /\ ~Invoked(r, "generate")
               /\ response[r].llm_response = FALLBACK_RESPONSES.api_key_missing
               /\ TextsOf(r, "synthesize") = {FALLBACK_RESPONSES.api_key_missing}

(* C11, amended: without the AssemblyAI credential the transcription         *)
(* adapter is not invoked and the api_key_missing message is the reply;      *)
(* without the Gemini credential the generator is not invoked and the        *)
(* llm_error message is the reply, stored as the assistant message; in both  *)
(* cases that text is passed to the synthesis adapter exactly when the Murf  *)
(* credential is present, and no synthesis call is made otherwise.           *)
C11_MissingCredential ==
    \A r \in Reqs :
        /\ (pc[r] # "Idle" /\ ~keys.assemblyai) =>
               /\ ~Invoked(r, "transcribe")
               /\ ~Invoked(r, "generate")
               /\ message[r] = FALLBACK_RESPONSES.api_key_missing
               /\ TextsOf(r, "synthesize") =
                      SpokenWhenPossible(FALLBACK_RESPONSES.api_key_missing)
               /\ pc[r] = "Done" =>
                      response[r].llm_response = FALLBACK_RESPONSES.api_key_missing
        /\ (SttSucceeded(r) /\ ~keys.gemini) =>
               /\ ~Invoked(r, "generate")
               /\ llm_text[r] = FALLBACK_RESPONSES.llm_error
               /\ TextsOf(r, "synthesize") =
                      SpokenWhenPossible(FALLBACK_RESPONSES.llm_error)
               /\ pc[r] = "Done" =>
                      response[r].llm_response = FALLBACK_RESPONSES.llm_error

\* a request without the Gemini credential has spoken the llm_error message
C11_Witness ==
    \E r \in Reqs :
        /\ pc[r] = "Done"
        /\ SttSucceeded(r)
        /\ ~keys.gemini
        /\ ~Invoked(r, "generate")
        /\ TextsOf(r, "synthesize") = {FALLBACK_RESPONSES.llm_error}
        /\ response[r].llm_response = FALLBACK_RESPONSES.llm_error

----------------------------------------------------------------------------
\* role and content of each message, in order
Contents(msgs) == [i \in DOMAIN msgs |-> <<msgs[i].role, msgs[i].content>>]

\* the session of r held no message when r read it at line 673: the prompt
\* sent to the generator carries no earlier line
SessionWasEmpty(r) ==
    TextsOf(r, "generate") = {ConversationContext(<<>>, transcribed_text[r])}

\* the scenario of C12 with reply text R expected in the body and the store
CleanExchange(r, R) ==
    LET sid == session_id[r]
        T == outcome[r].stt.text
    IN  /\ response[r].transcription = T
        /\ response[r].llm_response = R
        /\ response[r].audio_url = outcome[r].tts.audioFile
        /\ response[r].message_count = 2
        /\ response[r].status = "success"
        /\ Contents(get_chat_history(chat_history_store, sid)) =
               <<(<<"user", T>>), (<<"assistant", R>>)>>

----------------------------------------------------------------------------
(* C13 as stated: with no other request running, a chat request that         *)
(* reaches Transcribed adds exactly two messages to its session, its user    *)
(* message then its assistant message (two in all for the first request of   *)
(* the process), and returns the new count; without the Gemini credential    *)
(* the reply is the llm_error message and the status is partial_success or   *)
(* fallback.                                                                  *)
C13_AsStated ==
    \A r \in Reqs :
        (pc[r] = "Done" /\ SttSucceeded(r)) =>
            LET h == get_chat_history(chat_history_store, session_id[r])
                n == Len(h)
                mine == {i \in DOMAIN journal[session_id[r]] :
                            journal[session_id[r]][i].by = r}
            IN  /\ n >= 2
                /\ n % 2 = 0
                /\ started = 1 => n = 2
                /\ mine \subseteq DOMAIN h
                /\ Contents(SubSeq(h, n - 1, n)) =
                       <<(<<"user", transcribed_text[r]>>), (<<"assistant", llm_text[r]>>)>>
                /\ response[r].message_count = n
                /\ ~keys.gemini =>
                       /\ response[r].llm_response = FALLBACK_RESPONSES.llm_error
                       /\ response[r].status \in {"partial_success", "fallback"}

----------------------------------------------------------------------------
\* the appends made to sid since it was last cleared, or ever
Appended(sid) == IF sid \in DOMAIN journal THEN journal[sid] ELSE <<>>

\* a journal without the requests that made the appends
Messages(j) ==
    [i \in DOMAIN j |->
        [role |-> j[i].role, content |-> j[i].content, timestamp |-> j[i].timestamp]]

(* C14: for a session that was never appended to, or was cleared since, the  *)
(* history endpoint answers the empty sequence with count 0 and clear        *)
(* returns false, and neither call creates the session or changes the store. *)
C14_AbsentSession ==
    [][\A sid \in Sessions :
          Appended(sid) = <<>> =>
              /\ HistoryRequest(sid) =>
                    /\ http'.messages = <<>>
                    /\ http'.message_count = 0
                    /\ sid \notin DOMAIN chat_history_store'
                    /\ chat_history_store' = chat_history_store
              /\ ClearRequest(sid) =>
                    /\ http'.success = FALSE
                    /\ sid \notin DOMAIN chat_history_store'
                    /\ chat_history_store' = chat_history_store]_vars

\* the history of a session that does not exist was served while another
\* session holds messages
C14_Witness ==
    /\ http.endpoint = "history"
    /\ Appended(http.session_id) = <<>>
    /\ http.messages = <<>>
    /\ chat_history_store # EmptyStore
    /\ http.session_id \notin DOMAIN chat_history_store

----------------------------------------------------------------------------
\* the last min(k, Len(msgs)) elements of msgs, in order
LastOf(msgs, k) ==
    LET m == IF Len(msgs) < k THEN Len(msgs) ELSE k
    IN  [i \in 1..m |-> msgs[Len(msgs) - m + i]]

(* C15: after N appends to a session and no clear, its message count is N,   *)
(* its history is the N appended messages in append order, and the recent    *)
(* view of the prompt is the last min(10, N) of them in append order.        *)
C15_AppendOrder ==
    \A sid \in Sessions :
        LET appended == Messages(Appended(sid))
            N == Len(appended)
            history == get_chat_history(chat_history_store, sid)
        IN  /\ get_session_message_count(chat_history_store, sid) = N
            /\ history = appended
            /\ RecentHistory(history) = LastOf(appended, HistoryWindow)

\* a session holds more than ten messages, the last of them appended by the
\* request in progress, so the recent view drops the oldest
C15_Witness ==
    \E sid \in Sessions :
        /\ Len(Appended(sid)) > HistoryWindow
        /\ \E r \in Reqs : Appended(sid)[Len(Appended(sid))].by = r
        /\ RecentHistory(get_chat_history(chat_history_store, sid)) #
               get_chat_history(chat_history_store, sid)

----------------------------------------------------------------------------
(* C16: a clear returns true exactly when the session existed and removes    *)
(* the whole session, leaving its history empty, its count 0 and the other   *)
(* sessions as they were; a clear of a session that does not exist (so also  *)
(* a second clear with no append in between) returns false and changes       *)
(* nothing; every clear is answered with status success.                     *)
C16_Clear ==
    [][\A sid \in Sessions :
          ClearRequest(sid) =>
              /\ http'.success = (Appended(sid) # <<>>)
              /\ http'.status = "success"
              /\ sid \notin DOMAIN chat_history_store'
              /\ get_chat_history(chat_history_store', sid) = <<>>
              /\ get_session_message_count(chat_history_store', sid) = 0
              /\ \A other \in Sessions \ {sid} :
                    get_chat_history(chat_history_store', other) =
                        get_chat_history(chat_history_store, other)
              /\ Appended(sid) = <<>> => chat_history_store' = chat_history_store
              /\ ~clear_returns(chat_history_store', sid)]_vars

\* a clear has just removed a session that held messages
C16_Witness ==
    /\ http.endpoint = "clear"
    /\ http.success
    /\ http.message = "Chat history cleared successfully"
    /\ http.session_id \notin DOMAIN chat_history_store
    /\ started > 0

----------------------------------------------------------------------------
\* the summary C17 expects for a session that holds messages
Summary(sid) ==
    LET msgs == chat_history_store[sid]
    IN  [session_id |-> sid,
         message_count |-> Len(msgs),
         created_at |-> IsoFormat(msgs[1].timestamp),
         updated_at |-> IsoFormat(msgs[Len(msgs)].timestamp)]

(* C17 as stated: in every store state GET /agent/sessions answers with      *)
(* exactly one summary per session that holds at least one message, giving   *)
(* its length as message_count, its first message's timestamp as created_at  *)
(* and its last message's timestamp as updated_at.                           *)
C17_AsStated ==
    [][SessionsRequest =>
          /\ http'.status_code = 200
          /\ LET listed == http'.sessions
                 holding == {sid \in DOMAIN chat_history_store :
                                Len(chat_history_store[sid]) >= 1}
             IN  /\ Len(listed) = Cardinality(holding)
                 /\ http'.total_sessions = Cardinality(holding)
                 /\ {listed[i] : i \in DOMAIN listed} =
                        {Summary(sid) : sid \in holding}]_vars

----------------------------------------------------------------------------
\* the positions in the session of r of the messages r appended in a role
Own(r, role) ==
    {i \in DOMAIN Appended(session_id[r]) :
        Appended(session_id[r])[i].by = r /\ Appended(session_id[r])[i].role = role}

\* r has an append still to make
AppendPending(r) ==
    \/ pc[r] = "Transcribing"
    \/ pc[r] = "Generating"

(* C18: when requests on the same session run interleaved and none clears,   *)
(* no append is lost or corrupted: the session holds the appended messages   *)
(* in the order their appends completed, each request that reached           *)
(* Transcribed has its user message before its own assistant message, and    *)
(* once the k requests on the session that reached Transcribed have made     *)
(* their appends the session holds exactly 2k messages.                      *)
C18_NoLostAppend ==
    /\ \A sid \in Sessions :
          LET history == get_chat_history(chat_history_store, sid)
              on == {r \in Reqs : session_id[r] = sid}
              k == Cardinality({r \in on : SttSucceeded(r)})
          IN  /\ history = Messages(Appended(sid))
              /\ (\A r \in on : ~AppendPending(r)) => Len(history) = 2 * k
    /\ \A r \in Reqs :
          SttSucceeded(r) =>
              /\ Cardinality(Own(r, "user")) = 1
              /\ \A i \in Own(r, "user") :
                    /\ chat_history_store[session_id[r]][i].role = "user"
                    /\ chat_history_store[session_id[r]][i].content = transcribed_text[r]
              /\ Cardinality(Own(r, "assistant")) = (IF AppendPending(r) THEN 0 ELSE 1)
              /\ \A i \in Own(r, "user"), j \in Own(r, "assistant") :
                    /\ i < j
                    /\ chat_history_store[session_id[r]][j].role = "assistant"
                    /\ chat_history_store[session_id[r]][j].content = llm_text[r]

\* two requests on one session are over, the second having appended its user
\* message between the two appends of the first
C18_Witness ==
    \E r1, r2 \in Reqs :
        /\ r1 # r2
        /\ session_id[r1] = session_id[r2]
        /\ pc[r1] = "Done" /\ pc[r2] = "Done"
        /\ SttSucceeded(r1) /\ SttSucceeded(r2)
        /\ Len(chat_history_store[session_id[r1]]) = 4
        /\ \E i \in Own(r1, "user"), j \in Own(r2, "user"), l \in Own(r1, "assistant") :
              i < j /\ j < l

----------------------------------------------------------------------------
Adapters == {"transcribe", "generate", "synthesize"}

\* the failure branch each timeout selects
TimeoutBranch(r) ==
    /\ outcome[r].stt.kind = "timeout" =>
          /\ ~Invoked(r, "generate")
          /\ message[r] = STT_TIMEOUT_MESSAGE
          /\ pc[r] = "Done" => response[r].status = "fallback"
    /\ outcome[r].llm.kind = "timeout" =>
          /\ llm_text[r] = LLM_TIMEOUT_MESSAGE
          /\ TextsOf(r, "append_assistant") = {LLM_TIMEOUT_MESSAGE}
    /\ outcome[r].tts.kind = "timeout" =>
          /\ pc[r] = "Done"
          /\ response[r].audio_url = None
          /\ response[r].status \in {"partial_success", "fallback"}

----------------------------------------------------------------------------
\* the six texts of the mapping
FallbackValues == {FALLBACK_RESPONSES[k] : k \in DOMAIN FALLBACK_RESPONSES}

(* C20 as stated: on every failure path of the chat pipeline the text that   *)
(* stands in for the failed stage, is stored as the reply and is passed on   *)
(* to synthesis is one of the six values of FALLBACK_RESPONSES.              *)
C20_AsStated ==
    \A r \in Reqs :
        /\ message[r] # None =>
              /\ message[r] \in FallbackValues
              /\ TextsOf(r, "synthesize") \subseteq FallbackValues
        /\ (LlmFailed(r) /\ Invoked(r, "append_assistant")) =>
              /\ llm_text[r] \in FallbackValues
              /\ TextsOf(r, "append_assistant") \subseteq FallbackValues
              /\ TextsOf(r, "synthesize") \subseteq FallbackValues

----------------------------------------------------------------------------
\* r has answered a request to the endpoint
Answered(r, endpoint) == pc[r] = "Done" /\ request[r].endpoint = endpoint

\* the answer of r is a body of the handler, not an HTTP error
IsBody(r) == "status_code" \notin DOMAIN response[r] /\ "status" \in DOMAIN response[r]

(* C21: an echo request always ends in a body, never in a raised error: a    *)
(* transcription that fails (missing credential, adapter error, blank text,  *)
(* timeout, exception) gives status fallback; a synthesis that fails after a *)
(* good transcription (missing credential, non-200, timeout, exception)      *)
(* gives partial_success with no audio URL and the transcription as reply;   *)
(* on success the text sent to Murf is the transcription.                    *)
C21_EchoRecovers ==
    \A r \in Reqs :
        Answered(r, "echo") =>
            /\ IsBody(r)
            /\ response[r].status \in {"success", "partial_success", "fallback"}
            /\ (outcome[r].stt.kind = "missing_key" \/ SttErrored(r)) =>
                  /\ response[r].status = "fallback"
                  /\ ~Invoked(r, "transcribe") <=> ~keys.assemblyai
            /\ (SttSucceeded(r) /\ (outcome[r].tts.kind = "missing_key" \/ TtsFailed(r))) =>
                  /\ response[r].status = "partial_success"
                  /\ response[r].audio_url = None
                  /\ response[r].llm_response = outcome[r].stt.text
                  /\ response[r].transcription = outcome[r].stt.text
            /\ response[r].status = "success" =>
                  /\ SttSucceeded(r)
                  /\ TextsOf(r, "synthesize") = {outcome[r].stt.text}
                  /\ response[r].llm_response = outcome[r].stt.text
                  /\ response[r].transcription = outcome[r].stt.text

\* an echo whose transcription succeeded and whose Murf call answered non-200
C21_Witness ==
    \E r \in Reqs :
        /\ Answered(r, "echo")
        /\ SttSucceeded(r)
        /\ outcome[r].tts.kind = "non_200"
        /\ response[r].status = "partial_success"
        /\ response[r].llm_response = "hello"

----------------------------------------------------------------------------
\* the answer of r is a rejection with the code and a detail of an error and
\* a fallback
Rejected(r, code) ==
    /\ "status_code" \in DOMAIN response[r]
    /\ response[r].status_code = code
    /\ "detail" \in DOMAIN response[r]
    /\ DOMAIN response[r].detail = {"error", "fallback"}

(* C22: a direct TTS request whose text is empty or blank is rejected with   *)
(* 400, and one whose text is not blank and longer than 5000 characters is   *)
(* rejected with 413, each with an {error, fallback} detail and without a    *)
(* call of Murf, whether or not the Murf credential is present.              *)
C22_ValidationFirst ==
    \A r \in Reqs :
        Answered(r, "tts") =>
            LET text == request[r].text
                blank == text = "" \/ StripsToEmpty(text)
            IN  /\ blank =>
                      /\ Rejected(r, 400)
                      /\ ~Invoked(r, "synthesize")
                /\ (~blank /\ Len(text) > MaxTtsLen) =>
                      /\ Rejected(r, 413)
                      /\ ~Invoked(r, "synthesize")
                /\ (blank \/ Len(text) > MaxTtsLen) =>
                      outcome[r].tts = NotCalled

\* a text of 5001 characters was rejected with 413 although the Murf
\* credential is absent
C22_Witness ==
    \E r \in Reqs :
        /\ Answered(r, "tts")
        /\ ~keys.murf
        /\ Len(request[r].text) = MaxTtsLen + 1
        /\ Rejected(r, 413)

----------------------------------------------------------------------------
\* the status code C23 gives a file request: that of the first check that
\* fails, 200 when none does
FileStatus(r) ==
    LET file == request[r].file
        o == outcome[r].stt
    IN  IF ~keys.assemblyai THEN 503
        ELSE IF file.filename = "" \/ file.size = 0 THEN 400
        ELSE IF file.size > MaxFileSize THEN 413
        ELSE IF o.kind = "timeout" THEN 408
        ELSE IF o.kind \in {"error", "exception"} THEN 500
        ELSE IF IsBlank(o.text) THEN 400
        ELSE 200

(* C23: a file request is answered with {transcription} only when the        *)
(* credential is present, the file is valid and within the size limit and    *)
(* the adapter returned a non-blank text in time; every other answer is a    *)
(* rejection with an {error, fallback} detail whose code is that of the      *)
(* first failing check in the order credential 503, invalid file 400, size   *)
(* 413, timeout 408, adapter error 500, blank text 400; the transcription    *)
(* is called only when the first three checks pass.                          *)
C23_FirstFailingCheck ==
    \A r \in Reqs :
        Answered(r, "transcribe") =>
            /\ response[r].status_code = FileStatus(r)
            /\ Invoked(r, "transcribe") <=>
                  /\ keys.assemblyai
                  /\ request[r].file.filename # ""
                  /\ request[r].file.size \in 1..MaxFileSize
            /\ IF FileStatus(r) = 200
               THEN /\ "transcription" \in DOMAIN response[r]
                    /\ response[r].transcription = outcome[r].stt.text
                    /\ ~IsBlank(response[r].transcription)
               ELSE /\ Rejected(r, FileStatus(r))
                    /\ "transcription" \notin DOMAIN response[r]

\* an upload without a name and over the size limit was rejected as invalid
C23_Witness ==
    \E r \in Reqs :
        /\ Answered(r, "transcribe")
        /\ keys.assemblyai
        /\ request[r].file.filename = ""
        /\ request[r].file.size > MaxFileSize
        /\ Rejected(r, 400)

----------------------------------------------------------------------------
(* C24: the health answer reports each adapter available exactly when its    *)
(* credential is present; its status is healthy or degraded, degraded        *)
(* exactly when no credential is present; its message is 'All services       *)
(* operational' exactly when all three are present.                          *)
C24_Health ==
    http.endpoint = "health" =>
        /\ http.services.speech_to_text = "available" <=> keys.assemblyai
        /\ http.services.llm = "available" <=> keys.gemini
        /\ http.services.text_to_speech = "available" <=> keys.murf
        /\ \A s \in DOMAIN http.services : http.services[s] \in {"available", "unavailable"}
        /\ http.status \in {"healthy", "degraded"}
        /\ http.status = "degraded" <=> (~keys.assemblyai /\ ~keys.gemini /\ ~keys.murf)
        /\ http.message = "All services operational" <=>
               (keys.assemblyai /\ keys.gemini /\ keys.murf)

\* health was asked with one credential out of three and answered healthy
C24_Witness ==
    /\ http.endpoint = "health"
    /\ keys.murf /\ ~keys.assemblyai /\ ~keys.gemini
    /\ http.status = "healthy"
    /\ http.message # "All services operational"

----------------------------------------------------------------------------
(* C25: an error-audio request always ends in a body whose status is         *)
(* success, unavailable, failed or error, never in a raised error; the       *)
(* audio URL is set only when the status is success; without the Murf        *)
(* credential the answer is unavailable and Murf is not called.              *)
C25_ErrorAudio ==
    \A r \in Reqs :
        Answered(r, "error_audio") =>
            /\ IsBody(r)
            /\ response[r].status \in {"success", "unavailable", "failed", "error"}
            /\ response[r].audio_url # None => response[r].status = "success"
            /\ ~keys.murf =>
                  /\ response[r].status = "unavailable"
                  /\ ~Invoked(r, "synthesize")
            /\ keys.murf =>
                  TextsOf(r, "synthesize") = {ErrorMessage(request[r].body)}

\* the Murf call for an error message timed out and the answer is a body
C25_Witness ==
    \E r \in Reqs :
        /\ Answered(r, "error_audio")
        /\ outcome[r].tts.kind = "timeout"
        /\ response[r].status = "error"
        /\ response[r].audio_url = None

----------------------------------------------------------------------------
\* the prompt C26 describes for the utterance text in a session that held
\* the messages prior before the utterance was appended
PromptOver(prior, text) ==
    PREAMBLE \o HistoryLines(LastOf(prior, HistoryWindow))
        \o "User: " \o text \o "\n\nPlease respond to the user's latest message."

(* C26 as stated: the prompt sent to the generator is the preamble, then the *)
(* last 10 at most of the messages the session held before this request      *)
(* appended its user message, each labelled by its role, then the new        *)
(* utterance once, for a new session and for one that already has messages.  *)
C26_AsStated ==
    [][\A r \in Reqs :
          (pc[r] = "Transcribing" /\ pc'[r] = "Generating") =>
              TextsOf(r, "generate")' =
                  {PromptOver(get_chat_history(chat_history_store, session_id[r]),
                              transcribed_text'[r])}]_vars

----------------------------------------------------------------------------
----------------------------------------------------------------------------
(* C28: in every store state the timestamps of a session's messages are      *)
(* strictly increasing in append order, however close together two           *)
(* consecutive appends are. Violated: each append stores the datetime.now()  *)
(* it reads (line 170) and nothing makes a reading larger than the one       *)
(* before, so the user message and the assistant message of one request can  *)
(* carry the same timestamp.                                                 *)
C28_AsStated ==
    \A sid \in DOMAIN chat_history_store :
        \A i \in 1..(Len(chat_history_store[sid]) - 1) :
            chat_history_store[sid][i].timestamp < chat_history_store[sid][i + 1].timestamp

----------------------------------------------------------------------------
\* old is the beginning of new, message for message
Extends(new, old) ==
    /\ Len(old) <= Len(new)
    /\ SubSeq(new, 1, Len(old)) = old

(* C29: a session only grows between clears. Across every step that is not   *)
(* a clear of the session, the messages it held are the beginning of the     *)
(* messages it holds afterwards, unchanged and in the same order; and a      *)
(* step after which that is not so leaves no session under that identifier.  *)
C29_GrowsBetweenClears ==
    [][\A sid \in Sessions :
          LET old == get_chat_history(chat_history_store, sid)
              new == get_chat_history(chat_history_store', sid)
          IN  /\ (~ClearRequest(sid)) => Extends(new, old)
              /\ (~Extends(new, old)) => sid \notin DOMAIN chat_history_store']_vars

\* a request has added its two messages to the exchanges the session held
C29_Witness ==
    \E r \in Reqs :
        /\ pc[r] = "Done"
        /\ session_id[r] = "s1"
        /\ Len(get_chat_history(chat_history_store, "s1")) = 2 * MaxExchanges + 2
        /\ Contents(SubSeq(chat_history_store["s1"], 1, 2)) =
               <<(<<"user", "hello">>), (<<"assistant", "hi there">>)>>

----------------------------------------------------------------------------
\* the transcription stage of r has failed: no credential, or no usable text
SttStageFailed(r) ==
    \/ outcome[r].stt.kind = "missing_key"
    \/ SttErrored(r)

(* C30: a chat request whose transcription stage fails (missing credential,  *)
(* adapter error, blank text, timeout) leaves the session store as it was:   *)
(* every step the request takes with its transcription failed changes        *)
(* neither the sessions nor their messages, and the request makes no append. *)
C30_FailedTranscriptionFrame ==
    [][\A r \in Reqs :
          (pc'[r] # pc[r] /\ SttStageFailed(r)') =>
              /\ chat_history_store' = chat_history_store
              /\ journal' = journal
              /\ ~Invoked(r, "append_user")'
              /\ ~Invoked(r, "append_assistant")']_vars

\* a request on a session of two messages timed out in transcription and is
\* over; the session holds the same two messages
C30_Witness ==
    \E r \in Reqs :
        /\ pc[r] = "Done"
        /\ outcome[r].stt.kind = "timeout"
        /\ ~Invoked(r, "append_user")
        /\ session_id[r] \in DOMAIN chat_history_store
        /\ Len(chat_history_store[session_id[r]]) = 2

----------------------------------------------------------------------------
(* C31: the message_count of every body the chat handler returns is the      *)
(* number of messages stored for the request's session when the body is      *)
(* assembled, also when the transcription failed on a session that already   *)
(* holds messages. Violated: generate_fallback_audio returns the literal 0   *)
(* (line 113) whatever the session holds.                                    *)
C31_AsStated ==
    \A r \in Reqs :
        (pc[r] = "Done") =>
            response[r].message_count =
                get_session_message_count(chat_history_store, session_id[r])

----------------------------------------------------------------------------
(* C32: under any interleaving of chat requests and clears on the same       *)
(* session, the messages of every session alternate by role and start with   *)
(* a user message. Violated: a clear that runs while a request waits for the *)
(* generator removes the request's user message, and the assistant message   *)
(* appended at line 721 then opens the session.                              *)
C32_AsStated ==
    \A sid \in DOMAIN chat_history_store :
        \A i \in 1..Len(chat_history_store[sid]) :
            chat_history_store[sid][i].role = IF i % 2 = 1 THEN "user" ELSE "assistant"

----------------------------------------------------------------------------
(* C33: every chat request that reached Transcribed returns a message_count  *)
(* of at least 2, its user message and its assistant message both being in   *)
(* the session when the body is assembled, even when the session is cleared  *)
(* while the request waits for the generator. Violated already in the count: *)
(* after such a clear the count of line 722 is 1, the assistant message      *)
(* being alone in the session.                                               *)
C33_AsStated ==
    \A r \in Reqs :
        (pc[r] = "Done" /\ SttSucceeded(r)) => response[r].message_count >= 2

----------------------------------------------------------------------------
(* C34: in every chat request that reached Transcribed, the content of the   *)
(* assistant message appended to the session, the reply text of the returned *)
(* body and the text sent to Murf (when Murf is called) are one and the same *)
(* string: the truncated reply when the generator answered, the substitute   *)
(* text when it failed.                                                      *)
C34_OneReplyText ==
    \A r \in Reqs :
        (pc[r] = "Done" /\ SttSucceeded(r)) =>
            LET reply == response[r].llm_response
                h == get_chat_history(chat_history_store, session_id[r])
            IN  /\ TextsOf(r, "append_assistant") = {reply}
                /\ Len(h) >= 1
                /\ h[Len(h)].role = "assistant"
                /\ h[Len(h)].content = reply
                /\ TextsOf(r, "synthesize") = IF keys.murf THEN {reply} ELSE {}
                /\ LlmSucceeded(r) => reply = Truncate(Strip(outcome[r].llm.text))
                /\ LlmFailed(r) => reply \in {FALLBACK_RESPONSES.llm_error, LLM_TIMEOUT_MESSAGE}

\* a reply over the limit was cut, stored, spoken and returned
C34_Witness ==
    \E r \in Reqs :
        /\ pc[r] = "Done"
        /\ SttSucceeded(r)
        /\ outcome[r].llm.kind = "text"
        /\ outcome[r].llm.text = ReplyOverLimit
        /\ Invoked(r, "synthesize")
        /\ Len(response[r].llm_response) = TruncatedLen + Len(CONTINUATION_SUFFIX)

----------------------------------------------------------------------------
(* C35: no text that the chat handler sends to Murf is longer than           *)
(* MaxReplyLen characters: a cut reply is TruncatedLen characters and the    *)
(* suffix, which together are within MaxReplyLen, and every substitute text  *)
(* is within it too.                                                         *)
C35_SpokenWithinLimit ==
    /\ TruncatedLen + Len(CONTINUATION_SUFFIX) <= MaxReplyLen
    /\ \A m \in FallbackValues \cup {STT_TIMEOUT_MESSAGE, LLM_TIMEOUT_MESSAGE} :
          Len(m) <= MaxReplyLen
    /\ \A r \in Reqs :
          \A i \in CallsOf(r, "synthesize") :
              /\ Len(calls[r][i].text) <= MaxReplyLen
              /\ (LlmSucceeded(r) /\ Len(Strip(outcome[r].llm.text)) > MaxReplyLen) =>
                     Len(calls[r][i].text) = TruncatedLen + Len(CONTINUATION_SUFFIX)

\* replies at the limit and over it have been sent to Murf, the first whole
\* and the second cut
C35_Witness ==
    \E r \in Reqs :
        /\ pc[r] = "Done"
        /\ LlmSucceeded(r)
        /\ Len(Strip(outcome[r].llm.text)) = MaxReplyLen
        /\ \E i \in CallsOf(r, "synthesize") : Len(calls[r][i].text) = MaxReplyLen

----------------------------------------------------------------------------
(* C36: in every reachable state every session identifier in the store maps  *)
(* to at least one message: an append creates the session with its first     *)
(* message, a clear removes the key, and answering a history or sessions     *)
(* request adds no key.                                                      *)
C36_NoEmptySession ==
    /\ [](\A sid \in DOMAIN chat_history_store : Len(chat_history_store[sid]) >= 1)
    /\ [][(http' # http /\ http'.endpoint \in {"history", "sessions"}) =>
              DOMAIN chat_history_store' = DOMAIN chat_history_store]_vars

\* the history of a session that is not in the store has been read, next to a
\* session that an append created; the read left no key behind
C36_Witness ==
    /\ http.endpoint = "history"
    /\ http.message_count = 0
    /\ http.session_id \notin DOMAIN chat_history_store
    /\ \E sid \in DOMAIN chat_history_store : Len(chat_history_store[sid]) = 1

----------------------------------------------------------------------------
(* C37: operations on one session never affect another. In every step at     *)
(* most one session changes; a step of a chat request changes no session but *)
(* the request's own; and the prompt a request sends to the generator is     *)
(* built from messages of its own session only, so that a request on a       *)
(* session that holds nothing sends a prompt without history lines whatever  *)
(* the other sessions hold. This under any interleaving of requests and      *)
(* clears.                                                                   *)
C37_SessionsApart ==
    [][/\ \A A, B \in Sessions :
            (A # B /\ get_chat_history(chat_history_store', A)
                          # get_chat_history(chat_history_store, A)) =>
                get_chat_history(chat_history_store', B)
                    = get_chat_history(chat_history_store, B)
       /\ \A r \in Reqs :
            pc'[r] # pc[r] =>
                /\ \A B \in Sessions \ {session_id'[r]} :
                       get_chat_history(chat_history_store', B)
                           = get_chat_history(chat_history_store, B)
                /\ (pc'[r] = "Generating") =>
                       LET own == get_chat_history(chat_history_store, session_id[r])
                           seen == IF own = <<>> THEN <<>>
                                   ELSE get_chat_history(chat_history_store', session_id[r])
                       IN  TextsOf(r, "generate")' =
                               {ConversationContext(seen, transcribed_text'[r])}]_vars

\* a request on one session waits for the generator with a prompt that has no
\* history line while the other session holds messages
C37_Witness ==
    \E r \in Reqs :
        /\ pc[r] = "Generating"
        /\ SessionWasEmpty(r)
        /\ \E B \in DOMAIN chat_history_store \ {session_id[r]} :
               Len(chat_history_store[B]) >= 2

====
